---- MODULE Spec2Model ----
(***************************************************************************)
(* Block-access reconstruction over a query execution plan                 *)
(* (src/explore.py).  A string is a sequence of one-character strings, so  *)
(* that the regular expressions of the source act on characters.           *)
(***************************************************************************)
EXTENDS Integers, Sequences, FiniteSets, TLC

(***************************************************************************)
(* Bounds of the model.                                                    *)
(***************************************************************************)
\* longest statement, in tokens of TokPool, the condition rewriter is applied to
MaxToks == 5

\* most nodes of a plan
MaxNodes == 3

\* most calls of get_blocks_accessed on one plan
MaxCalls == 2

(***************************************************************************)
(* Characters and character classes of the regular expressions.            *)
(***************************************************************************)
Lower == {"a", "b", "c", "d", "e", "f", "g", "h", "i", "j", "k", "l", "m",
          "n", "o", "p", "q", "r", "s", "t", "u", "v", "w", "x", "y", "z"}

Upper == {"A", "B", "C", "D", "E", "F", "G", "H", "I", "J", "K", "L", "M",
          "N", "O", "P", "Q", "R", "S", "T", "U", "V", "W", "X", "Y", "Z"}

\* the range 1-9 of the source's classes: the digit 0 is not in it
Digits19 == {"1", "2", "3", "4", "5", "6", "7", "8", "9"}

\* [a-zA-Z1-9?_]
AliasChar(c) == c \in Lower \cup Upper \cup Digits19 \cup {"?", "_"}

\* [a-zA-Z1-9_]
IdentChar(c) == c \in Lower \cup Upper \cup Digits19 \cup {"_"}

\* None: a value no string of characters equals
None == <<"None">>

(***************************************************************************)
(* Sequence helpers: slices, prefix test, greedy runs of a class.          *)
(***************************************************************************)
Slice(s, i, j) == IF j < i THEN << >> ELSE SubSeq(s, i, j)

\* pat occurs in s at position i
OccursAt(pat, s, i) ==
    /\ i >= 1
    /\ i + Len(pat) - 1 <= Len(s)
    /\ \A k \in 1..Len(pat) : s[i + k - 1] = pat[k]

RECURSIVE AliasRunEnd(_, _)
\* last position of the greedy run [a-zA-Z1-9?_]+ starting at i (i-1 if none)
AliasRunEnd(s, i) ==
    IF i <= Len(s) /\ AliasChar(s[i]) THEN AliasRunEnd(s, i + 1) ELSE i - 1

RECURSIVE IdentRunEnd(_, _)
\* last position of the greedy run [a-zA-Z1-9_]+ starting at i (i-1 if none)
IdentRunEnd(s, i) ==
    IF i <= Len(s) /\ IdentChar(s[i]) THEN IdentRunEnd(s, i + 1) ELSE i - 1

(***************************************************************************)
(* get_aliases_in_condition: re.findall of ([a-zA-Z1-9?_]+)\.[a-zA-Z1-9_]+ *)
(* The matches are the leftmost, non-overlapping ones; the search resumes  *)
(* after the end of each match.                                            *)
(***************************************************************************)
\* the match starting exactly at k: [ok, alias, end]
AliasMatchAt(s, k) ==
    LET j == AliasRunEnd(s, k)
        e == IdentRunEnd(s, j + 2)
    IN  IF j >= k /\ j + 1 <= Len(s) /\ s[j + 1] = "." /\ e >= j + 2
        THEN [ok |-> TRUE, alias |-> Slice(s, k, j), end |-> e]
        ELSE [ok |-> FALSE, alias |-> << >>, end |-> k]

RECURSIVE FindAliases(_, _)
FindAliases(s, k) ==
    IF k > Len(s) THEN {}
    ELSE LET m == AliasMatchAt(s, k)
         IN  IF m.ok THEN {m.alias} \cup FindAliases(s, m.end + 1)
             ELSE FindAliases(s, k + 1)

get_aliases_in_condition(cond) == FindAliases(cond, 1)

(***************************************************************************)
(* re.sub(rf"{alias}\.", f"{view}.", statement) for an alias that holds no *)
(* regex metacharacter: every leftmost non-overlapping occurrence of the   *)
(* text alias"." is replaced, wherever it starts (also inside a longer     *)
(* identifier).                                                            *)
(***************************************************************************)
RECURSIVE SubFrom(_, _, _, _)
SubFrom(pat, repl, s, k) ==
    IF k > Len(s) THEN << >>
    ELSE IF OccursAt(pat, s, k)
         THEN repl \o SubFrom(pat, repl, s, k + Len(pat))
         ELSE <<s[k]>> \o SubFrom(pat, repl, s, k + 1)

re_sub(pat, repl, s) == SubFrom(pat, repl, s, 1)

(***************************************************************************)
(* Results of a call: a value, or the exception it raised.                 *)
(***************************************************************************)
Returned(v) == [exc |-> "none", val |-> v]
Raised(e) == [exc |-> e, val |-> << >>]

(***************************************************************************)
(* replace_aliases_with_views.  `order` is the order in which the for loop *)
(* meets the elements of the alias set: a Python set of strings iterates   *)
(* in an order that depends on the process's hash seed.                    *)
(***************************************************************************)
RECURSIVE ReplaceLoop(_, _, _, _)
ReplaceLoop(statement, views, order, i) ==
    IF i > Len(order) THEN Returned(statement)
    ELSE IF order[i] \notin DOMAIN views
         THEN Raised("ViewNotFoundException")
         ELSE ReplaceLoop(
                  re_sub(order[i] \o <<".">>, views[order[i]] \o <<".">>, statement),
                  views, order, i + 1)

\* the iteration orders of a set
Orders(S) ==
    {o \in [1..Cardinality(S) -> S] : \A i, j \in 1..Cardinality(S) : o[i] = o[j] => i = j}

replace_aliases_with_views(statement, views, order) ==
    ReplaceLoop(statement, views, order, 1)

(***************************************************************************)
(* condition_is_join / alter_join_condition: re.search of                  *)
(*   (left: I+\.?I+) = (table_right: I+)\.(right_column: I+)               *)
(* with I = [a-zA-Z1-9_].  The match is the leftmost one.                  *)
(***************************************************************************)
EqSign == <<" ", "=", " ">>

\* r1, r2: the ends of the two runs of the left operand I+\.?I+ starting at k
LeftEnd(s, k, r1, r2) ==
    IF r1 < k THEN 0
    ELSE IF r1 + 1 <= Len(s) /\ s[r1 + 1] = "." /\ r2 >= r1 + 2
              /\ OccursAt(EqSign, s, r2 + 1)
         THEN r2
    ELSE IF r1 >= k + 1 /\ OccursAt(EqSign, s, r1 + 1)
         THEN r1
    ELSE 0

\* end of the left operand I+\.?I+ starting at k that is followed by " = "
\* (0 if there is none)
LeftEndAt(s, k) ==
    LeftEnd(s, k, IdentRunEnd(s, k), IdentRunEnd(s, IdentRunEnd(s, k) + 2))

\* the right operand I+\.I+ after a left operand ending at le: t1, c1 are the
\* ends of its two runs
JoinMatchRight(s, k, le, t1, c1) ==
    IF le > 0 /\ t1 >= le + 4 /\ t1 + 1 <= Len(s) /\ s[t1 + 1] = "." /\ c1 >= t1 + 2
    THEN [ok |-> TRUE, left |-> Slice(s, k, le),
          table_right |-> Slice(s, le + 4, t1), right_column |-> Slice(s, t1 + 2, c1)]
    ELSE [ok |-> FALSE, left |-> << >>, table_right |-> << >>, right_column |-> << >>]

JoinMatchLeft(s, k, le) ==
    JoinMatchRight(s, k, le, IdentRunEnd(s, le + 4),
                   IdentRunEnd(s, IdentRunEnd(s, le + 4) + 2))

\* the match starting exactly at k: [ok, left, table_right, right_column]
JoinMatchAt(s, k) == JoinMatchLeft(s, k, LeftEndAt(s, k))

RECURSIVE JoinSearch(_, _)
\* m is the match at k: it is the answer, or the search goes on at k + 1
Leftmost(s, k, m) ==
    IF k > Len(s) \/ m.ok THEN m ELSE JoinSearch(s, k + 1)

\* re.search: the leftmost match from k on
JoinSearch(s, k) == Leftmost(s, k, JoinMatchAt(s, k))

\* a faulty variant: every condition that holds " = " counts as a join
condition_is_equality(cond) == \E k \in 1..Len(cond) : OccursAt(EqSign, cond, k)

condition_is_join(cond) == JoinSearch(cond, 1).ok

\* "( {} IN (SELECT {} FROM {}) )".format(left, right_column, table_right)
InSelect(left, right_column, table_right) ==
    <<"(", " ">> \o left \o <<" ", "I", "N", " ", "(", "S", "E", "L", "E", "C", "T", " ">>
    \o right_column \o <<" ", "F", "R", "O", "M", " ">> \o table_right \o <<")", " ", ")">>

\* match is the result of the re.search
AlterMatch(match) ==
    IF ~match.ok THEN Raised("ValueError")
    ELSE Returned(InSelect(match.left, match.right_column, match.table_right))

alter_join_condition(cond) == AlterMatch(JoinSearch(cond, 1))

(***************************************************************************)
(* build_select and build_join.  A statement is kept as its parts; the     *)
(* conditions of a SELECT stay a list (the text joins them with AND).      *)
(***************************************************************************)
build_select(relation, conditions, order, limit) ==
    [kind |-> "select", relation |-> relation,
     conditions |-> SelectSeq(conditions, LAMBDA c : c # None),
     order |-> order, limit |-> limit]

\* the match on join_type
JoinKeyword(join_type) ==
    CASE join_type = <<"Inner">> -> <<"INNER">>
      [] join_type = <<"Full">>  -> <<"FULL OUTER">>
      [] join_type = <<"Left">>  -> <<"LEFT OUTER">>
      [] join_type = <<"Right">> -> <<"RIGHT OUTER">>
      [] OTHER -> None

\* keyword is the string the match on join_type gives (None: no case matched)
JoinStatement(relation_inner, relation_outer, join_cond, keyword, select_cols) ==
    IF keyword = None THEN Raised("UnsupportedQueryException")
    ELSE Returned([kind |-> "join", cross |-> (join_cond = << >>),
                   relation_inner |-> relation_inner, relation_outer |-> relation_outer,
                   join_cond |-> join_cond, join_type |-> keyword,
                   select_cols |-> select_cols])

build_join(relation_inner, relation_outer, join_cond, join_type, select_cols) ==
    JoinStatement(relation_inner, relation_outer, join_cond, JoinKeyword(join_type),
                  select_cols)

(***************************************************************************)
(* The engine behind the connection (psycopg2 / PostgreSQL), as far as the *)
(* requests of explore.py reach it: two base relations with their rows and *)
(* blocks, the views of the open transaction, and the errors a statement   *)
(* is answered with.                                                       *)
(***************************************************************************)
Digits == Digits19 \cup {"0"}

WordChar(c) == c \in Lower \cup Upper \cup Digits \cup {"_"}

UpperSeq == <<"A", "B", "C", "D", "E", "F", "G", "H", "I", "J", "K", "L", "M",
              "N", "O", "P", "Q", "R", "S", "T", "U", "V", "W", "X", "Y", "Z">>

LowerSeq == <<"a", "b", "c", "d", "e", "f", "g", "h", "i", "j", "k", "l", "m",
              "n", "o", "p", "q", "r", "s", "t", "u", "v", "w", "x", "y", "z">>

\* str.lower(), and the engine's folding of an unquoted identifier
lower(s) ==
    [i \in 1..Len(s) |->
        IF s[i] \in Upper THEN LowerSeq[CHOOSE k \in 1..26 : UpperSeq[k] = s[i]] ELSE s[i]]

RelR == <<"r">>
RelS == <<"s">>
ColId == <<"i", "d">>
ColRv == <<"r", "v">>
ColSv == <<"s", "v">>

\* the rows of the base relations in physical order: the block (the first
\* component of ctid) and the column values
BaseTables ==
    (RelR :> [cols |-> {ColId, ColRv},
              rows |-> << [blk |-> 1, vals |-> (ColId :> <<"5">>) @@ (ColRv :> <<"1">>)],
                          [blk |-> 1, vals |-> (ColId :> <<"7">>) @@ (ColRv :> <<"1">>)],
                          [blk |-> 2, vals |-> (ColId :> <<"5">>) @@ (ColRv :> <<"2">>)],
                          [blk |-> 3, vals |-> (ColId :> <<"7">>) @@ (ColRv :> <<"2">>)] >>])
    @@
    (RelS :> [cols |-> {ColId, ColSv},
              rows |-> << [blk |-> 3, vals |-> (ColId :> <<"5">>) @@ (ColSv :> <<"1">>)],
                          [blk |-> 4, vals |-> (ColId :> <<"8">>) @@ (ColSv :> <<"2">>)] >>])

\* the column values of the rows of a base relation
Values(rows) == [i \in 1..Len(rows) |-> rows[i].vals]

\* the relation of a folded name: [found, base, cols, rows, blks]
Relation(db, n, base) ==
    IF n \in DOMAIN base
    THEN [found |-> TRUE, base |-> TRUE, cols |-> base[n].cols, rows |-> Values(base[n].rows)]
    ELSE IF n \in DOMAIN db.views
    THEN [found |-> TRUE, base |-> FALSE, cols |-> db.views[n].cols, rows |-> db.views[n].rows]
    ELSE [found |-> FALSE, base |-> FALSE, cols |-> {}, rows |-> << >>]

\* a relation the engine can read
Lookup(db, name) == Relation(db, lower(name), BaseTables)

RECURSIVE FindSub(_, _, _)
\* first position >= k at which pat occurs in s (0 if none)
FindSub(pat, s, k) ==
    IF k + Len(pat) - 1 > Len(s) THEN 0
    ELSE IF OccursAt(pat, s, k) THEN k ELSE FindSub(pat, s, k + 1)

IsWord(s) == Len(s) > 0 /\ (\A i \in 1..Len(s) : WordChar(s[i])) /\ s[1] \notin Digits
IsNumber(s) == Len(s) > 0 /\ \A i \in 1..Len(s) : s[i] \in Digits

Operand(kind, q, name) == [kind |-> kind, q |-> q, name |-> name]

\* word: s is an identifier; q, name: the parts of s around its first dot
\* (folded, as the engine folds identifiers)
OperandOf(s, word, q, name) ==
    IF IsNumber(s) THEN Operand("lit", << >>, s)
    ELSE IF word THEN Operand("col", << >>, lower(s))
    ELSE IF Len(s) > 1 /\ s[1] = "$" /\ IsNumber(Tail(s)) THEN Operand("param", << >>, s)
    ELSE IF Len(q) > 0 /\ Len(name) > 0 THEN Operand("qcol", lower(q), lower(name))
    ELSE Operand("bad", << >>, s)

\* the text before the dot at position dot of s, if it is an identifier
Qualifier(s, dot) ==
    IF dot > 0 /\ IsWord(Slice(s, 1, dot - 1)) THEN Slice(s, 1, dot - 1) ELSE << >>

\* the text after the dot at position dot of s, if it is an identifier
Qualified(s, dot) ==
    IF dot > 0 /\ IsWord(Slice(s, dot + 1, Len(s))) THEN Slice(s, dot + 1, Len(s)) ELSE << >>

OperandAt(s, dot) == OperandOf(s, IsWord(s), Qualifier(s, dot), Qualified(s, dot))

\* an operand of a comparison: a number, a column, a qualified column, a parameter
ParseOperand(s) == OperandAt(s, FindSub(<<".">>, s, 1))

InOpen == <<" ", "I", "N", " ", "(", "S", "E", "L", "E", "C", "T", " ">>
InFrom == <<" ", "F", "R", "O", "M", " ">>
InClose == <<")", " ", ")">>

Cond(kind, left, right, sub_col, sub_table) ==
    [kind |-> kind, left |-> left, right |-> right, sub_col |-> sub_col,
     sub_table |-> sub_table]

\* eq, io, fr: the positions of " = ", " IN (SELECT " and " FROM " in cond
CondAt(cond, eq, io, fr) ==
    IF io > 0 /\ fr > 0 /\ OccursAt(<<"(", " ">>, cond, 1)
       /\ OccursAt(InClose, cond, Len(cond) - 2) /\ Len(cond) - 2 > fr + Len(InFrom)
       /\ IsWord(Slice(cond, io + Len(InOpen), fr - 1)) /\ IsWord(Slice(cond, fr + Len(InFrom), Len(cond) - 3))
    THEN Cond("in", ParseOperand(Slice(cond, 3, io - 1)), Operand("bad", << >>, << >>),
              lower(Slice(cond, io + Len(InOpen), fr - 1)), Slice(cond, fr + Len(InFrom), Len(cond) - 3))
    ELSE IF eq > 0 /\ io = 0
    THEN Cond("eq", ParseOperand(Slice(cond, 1, eq - 1)),
              ParseOperand(Slice(cond, eq + 3, Len(cond))), << >>, << >>)
    ELSE Cond("bad", Operand("bad", << >>, << >>), Operand("bad", << >>, << >>), << >>, << >>)

\* a condition: L = R, or ( L IN (SELECT c FROM T) )
ParseCond(cond) ==
    CondAt(cond, FindSub(EqSign, cond, 1), FindSub(InOpen, cond, 1),
           FindSub(InFrom, cond, FindSub(InOpen, cond, 1) + Len(InOpen)))

ParseConds(conds) == [i \in 1..Len(conds) |-> ParseCond(conds[i])]

\* scope: the relations of the FROM clause, <<[name, cols]>>, names folded.
\* the relations of the scope an operand's column can come from
Sources(op, scope) ==
    {i \in 1..Len(scope) :
        /\ op.kind = "qcol" => op.q = scope[i].name
        /\ op.name \in scope[i].cols}

SourceError(op, scope, sources) ==
    CASE op.kind = "lit" -> "none"
      [] op.kind = "param" -> "UndefinedParameter"
      [] op.kind = "bad" -> "SyntaxError"
      [] op.kind = "qcol" ->
            IF \A i \in 1..Len(scope) : op.q # scope[i].name THEN "UndefinedTable"
            ELSE IF sources = {} THEN "UndefinedColumn" ELSE "none"
      [] op.kind = "col" ->
            IF sources = {} THEN "UndefinedColumn"
            ELSE IF Cardinality(sources) > 1 THEN "AmbiguousColumn"
            ELSE "none"

\* the error the engine answers an operand with ("none": it is accepted)
OperandError(op, scope) == SourceError(op, scope, Sources(op, scope))

\* rows: one row per relation of the scope
OperandValue(op, scope, rows) ==
    IF op.kind = "lit" THEN op.name
    ELSE rows[CHOOSE i \in Sources(op, scope) : TRUE][op.name]

FirstError(errs) ==
    IF \A i \in 1..Len(errs) : errs[i] = "none" THEN "none"
    ELSE errs[CHOOSE i \in 1..Len(errs) :
                 errs[i] # "none" /\ \A j \in 1..(i - 1) : errs[j] = "none"]

\* the subquery SELECT sub_col FROM t: a column t does not have is a column
\* of the enclosing statement
SubqueryError(pc, t, scope) ==
    IF ~t.found THEN "UndefinedTable"
    ELSE IF pc.sub_col \in t.cols THEN "none"
    ELSE OperandError(Operand("col", << >>, pc.sub_col), scope)

\* the error the engine answers a parsed condition with
CondError(db, pc, scope) ==
    CASE pc.kind = "bad" -> "SyntaxError"
      [] pc.kind = "eq" ->
            FirstError(<<OperandError(pc.left, scope), OperandError(pc.right, scope)>>)
      [] pc.kind = "in" ->
            FirstError(<<OperandError(pc.left, scope),
                         SubqueryError(pc, Lookup(db, pc.sub_table), scope)>>)

CondsError(db, pcs, scope) ==
    FirstError([i \in 1..Len(pcs) |-> CondError(db, pcs[i], scope)])

\* l is among the values of SELECT sub_col FROM t
InSubquery(pc, scope, rows, t, l) ==
    \E i \in 1..Len(t.rows) :
        l = IF pc.sub_col \in t.cols THEN t.rows[i][pc.sub_col]
            ELSE OperandValue(Operand("col", << >>, pc.sub_col), scope, rows)

\* l is the value of the left operand (a comparison with NULL does not hold)
Holds(db, pc, scope, rows, l) ==
    /\ l # None
    /\ IF pc.kind = "eq" THEN l = OperandValue(pc.right, scope, rows)
       ELSE InSubquery(pc, scope, rows, Lookup(db, pc.sub_table), l)

\* an accepted condition holds of the rows
CondHolds(db, pc, scope, rows) ==
    Holds(db, pc, scope, rows, OperandValue(pc.left, scope, rows))

DigitSeq == <<"0", "1", "2", "3", "4", "5", "6", "7", "8", "9">>

RECURSIVE ToInt(_)
\* the number a string of digits writes
ToInt(s) ==
    IF Len(s) = 0 THEN 0
    ELSE 10 * ToInt(SubSeq(s, 1, Len(s) - 1))
         + ((CHOOSE k \in 1..10 : DigitSeq[k] = s[Len(s)]) - 1)

\* what a statement evaluates to: [err, cols, rows]
Failed(err) == [err |-> err, cols |-> {}, rows |-> << >>]

Result(err, cols, rows) ==
    IF err # "none" THEN Failed(err) ELSE [err |-> "none", cols |-> cols, rows |-> rows]

\* LIMIT limit
Limited(rows, limit) ==
    IF limit = None \/ ToInt(limit) > Len(rows) THEN rows
    ELSE SubSeq(rows, 1, ToInt(limit))

SelectOver(db, stmt, src, pcs, scope) ==
    Result(CondsError(db, pcs, scope), src.cols,
           Limited(SelectSeq(src.rows,
                       LAMBDA row : \A i \in 1..Len(pcs) :
                                       CondHolds(db, pcs[i], scope, <<row>>)),
                   stmt.limit))

SelectFrom(db, stmt, src, pcs) ==
    IF ~src.found THEN Failed("UndefinedTable")
    ELSE SelectOver(db, stmt, src, pcs,
                    <<[name |-> lower(stmt.relation), cols |-> src.cols]>>)

\* SELECT * FROM relation [WHERE conditions] [LIMIT limit]
EvalSelect(db, stmt) ==
    SelectFrom(db, stmt, Lookup(db, stmt.relation), ParseConds(stmt.conditions))

\* the row of NULLs over cols
NullRow(cols) == [c \in cols |-> None]

\* the pairs of row numbers the ON condition holds of
Hits(db, stmt, li, lo, scope, pc) ==
    {h \in (1..Len(li.rows)) \X (1..Len(lo.rows)) :
        stmt.cross \/ CondHolds(db, pc, scope, <<li.rows[h[1]], lo.rows[h[2]]>>)}

\* the numbers 1..n in order
Upto(n) == [i \in 1..n |-> i]

\* the joined rows: the matching pairs, then the unmatched rows an outer
\* join keeps
JoinRows(stmt, li, lo, hits) ==
    LET pairs == [p \in 1..(Len(li.rows) * Len(lo.rows)) |->
                     <<((p - 1) \div Len(lo.rows)) + 1, ((p - 1) % Len(lo.rows)) + 1>>]
        matched == SelectSeq(pairs, LAMBDA h : h \in hits)
        lone_inner == SelectSeq(Upto(Len(li.rows)),
                          LAMBDA a : /\ stmt.join_type \in {<<"LEFT OUTER">>, <<"FULL OUTER">>}
                                     /\ \A b \in 1..Len(lo.rows) : <<a, b>> \notin hits)
        lone_outer == SelectSeq(Upto(Len(lo.rows)),
                          LAMBDA b : /\ stmt.join_type \in {<<"RIGHT OUTER">>, <<"FULL OUTER">>}
                                     /\ \A a \in 1..Len(li.rows) : <<a, b>> \notin hits)
    IN  [k \in 1..Len(matched) |-> <<li.rows[matched[k][1]], lo.rows[matched[k][2]]>>]
        \o [k \in 1..Len(lone_inner) |-> <<li.rows[lone_inner[k]], NullRow(lo.cols)>>]
        \o [k \in 1..Len(lone_outer) |-> <<NullRow(li.cols), lo.rows[lone_outer[k]]>>]

\* the select list over the joined rows
Projected(rows, items, scope) ==
    [k \in 1..Len(rows) |->
        [c \in {it.name : it \in items} |->
            OperandValue(CHOOSE it \in items : it.name = c, scope, rows[k])]]

ItemError(it, scope) ==
    IF it.kind \in {"col", "qcol"} THEN OperandError(it, scope) ELSE "SyntaxError"

JoinError(db, stmt, scope, items, pc) ==
    FirstError(<<IF \A it \in items : ItemError(it, scope) = "none" THEN "none"
                 ELSE ItemError(CHOOSE it \in items : ItemError(it, scope) # "none", scope),
                 IF stmt.cross THEN "none" ELSE CondError(db, pc, scope),
                 IF Cardinality({it.name : it \in items}) < Cardinality(items)
                 THEN "DuplicateColumn" ELSE "none">>)

JoinOver(db, stmt, li, lo, scope, items, pc) ==
    Result(JoinError(db, stmt, scope, items, pc), {it.name : it \in items},
           Projected(JoinRows(stmt, li, lo, Hits(db, stmt, li, lo, scope, pc)), items, scope))

JoinFrom(db, stmt, li, lo) ==
    IF ~li.found \/ ~lo.found THEN Failed("UndefinedTable")
    ELSE JoinOver(db, stmt, li, lo,
                  <<[name |-> lower(stmt.relation_inner), cols |-> li.cols],
                    [name |-> lower(stmt.relation_outer), cols |-> lo.cols]>>,
                  {ParseOperand(c) : c \in stmt.select_cols}, ParseCond(stmt.join_cond))

\* SELECT select_cols FROM inner <type> JOIN outer ON join_cond (or CROSS JOIN)
EvalJoin(db, stmt) ==
    JoinFrom(db, stmt, Lookup(db, stmt.relation_inner), Lookup(db, stmt.relation_outer))

EvalStatement(db, stmt) ==
    IF stmt.kind = "select" THEN EvalSelect(db, stmt) ELSE EvalJoin(db, stmt)

\* an answer of the engine: the error ("none": success), the engine afterwards
\* and the rows fetched
Answer(err, db, out) == [err |-> err, db |-> db, out |-> out]

\* a statement fails: the open transaction is aborted until it is rolled back
Aborted(db) == [db EXCEPT !.aborted = TRUE]

\* a faulty variant: the rollback is left out
rollbackLeftOut(db) == db

\* connection.rollback(): the open transaction ends and what it created is gone.
\* No statement of the source commits, so every view belongs to the open
\* transaction.
rollback(db) == [views |-> << >>, aborted |-> FALSE]

BlockIdsAnswer(db, err, blocks) ==
    IF err # "none" THEN Answer(err, Aborted(db), {}) ELSE Answer("none", db, blocks)

BlockIdsOver(db, condition, pc, scope, rows) ==
    BlockIdsAnswer(db, IF condition = None THEN "none" ELSE CondError(db, pc, scope),
                   {rows[j].blk : j \in
                       {i \in 1..Len(rows) :
                           condition = None \/ CondHolds(db, pc, scope, <<rows[i].vals>>)}})

BlockIdsFrom(db, relation_name, condition, src, pc) ==
    IF ~src.found THEN Answer("UndefinedTable", Aborted(db), {})
    ELSE IF ~src.base THEN Answer("UndefinedColumn", Aborted(db), {})
    ELSE BlockIdsOver(db, condition, pc,
                      <<[name |-> lower(relation_name), cols |-> src.cols]>>,
                      BaseTables[lower(relation_name)].rows)

\* SELECT DISTINCT (ctid::text::point)[0]::bigint FROM relation_name [WHERE condition]
ExecBlockIds(db, relation_name, condition) ==
    IF db.aborted THEN Answer("InFailedSqlTransaction", db, {})
    ELSE BlockIdsFrom(db, relation_name, condition, Lookup(db, relation_name),
                      IF condition = None THEN ParseCond(<< >>) ELSE ParseCond(condition))

\* the relations a condition reads in a subquery
CondReads(pc) == IF pc.kind = "in" THEN {lower(pc.sub_table)} ELSE {}

\* the relations a statement reads (folded names): a view depends on them
StatementReads(stmt) ==
    IF stmt.kind = "select"
    THEN {lower(stmt.relation)}
         \cup UNION {CondReads(ParseCond(stmt.conditions[i])) : i \in 1..Len(stmt.conditions)}
    ELSE {lower(stmt.relation_inner), lower(stmt.relation_outer)}
         \cup (IF stmt.cross THEN {} ELSE CondReads(ParseCond(stmt.join_cond)))

\* n: the folded view name; res: what the statement evaluates to; reads: the
\* relations the statement reads
CreateViewAs(db, n, res, reads) ==
    IF res.err # "none" THEN Answer(res.err, Aborted(db), {})
    ELSE IF n \in DOMAIN BaseTables \cup DOMAIN db.views
    THEN Answer("DuplicateTable", Aborted(db), {})
    ELSE Answer("none",
                [db EXCEPT !.views = (n :> [cols |-> res.cols, rows |-> res.rows,
                                            reads |-> reads]) @@ @],
                {})

\* CREATE VIEW view_name AS statement
ExecCreateView(db, view_name, statement) ==
    IF db.aborted THEN Answer("InFailedSqlTransaction", db, {})
    ELSE CreateViewAs(db, lower(view_name), EvalStatement(db, statement),
                      StatementReads(statement))

\* n: the folded view name
DropViewAs(db, n) ==
    IF n \notin DOMAIN db.views THEN Answer("UndefinedTable", Aborted(db), {})
    ELSE IF \E v \in DOMAIN db.views : n \in db.views[v].reads
    THEN Answer("DependentObjectsStillExist", Aborted(db), {})
    ELSE Answer("none",
                [db EXCEPT !.views = [v \in DOMAIN db.views \ {n} |-> db.views[v]]], {})

\* DROP VIEW view_name
ExecDropView(db, view_name) ==
    IF db.aborted THEN Answer("InFailedSqlTransaction", db, {})
    ELSE DropViewAs(db, lower(view_name))

\* a faulty variant: what the open transaction did outlives the connection
closeCommitted(db) == [db EXCEPT !.aborted = FALSE]

\* the connection object is released (replaced by reconnect(), or destroyed
\* with its DatabaseConnection): the engine ends the session and discards the
\* open transaction.  No statement of the source commits.
close(db) == rollback(db)

\* SELECT column_name FROM information_schema.columns WHERE table_name = ...
ExecColumnNames(db, table_name) ==
    IF db.aborted THEN Answer("InFailedSqlTransaction", db, {})
    ELSE Answer("none", db, Lookup(db, table_name).cols)

(***************************************************************************)
(* The plan tree (class Node).  A node: its node_type, its node_id, its    *)
(* attribute bag (attribute name -> value) and the indices of its children *)
(* in the tree's node list, the root first.                                *)
(***************************************************************************)
ALIAS == "Alias"
PARENT_RELATIONSHIP == "Parent Relationship"
INDEX_COND == "Index Cond"
RECHECK_COND == "Recheck Cond"
HASH_COND == "Hash Cond"
MERGE_COND == "Merge Cond"
JOIN_TYPE == "Join Type"
SORT_KEY == "Sort Key"

\* Node.__getitem__
Get(node, attr) ==
    IF attr \in DOMAIN node.attributes THEN node.attributes[attr] ELSE None

\* the characters of the node types
NodeTypeChars ==
    ("Seq Scan" :> <<"S", "e", "q", " ", "S", "c", "a", "n">>) @@
    ("Parallel Seq Scan" :> <<"P", "a", "r", "a", "l", "l", "e", "l", " ", "S", "e", "q", " ", "S", "c", "a", "n">>) @@
    ("Index Scan" :> <<"I", "n", "d", "e", "x", " ", "S", "c", "a", "n">>) @@
    ("Index Only Scan" :> <<"I", "n", "d", "e", "x", " ", "O", "n", "l", "y", " ", "S", "c", "a", "n">>) @@
    ("Bitmap Heap Scan" :> <<"B", "i", "t", "m", "a", "p", " ", "H", "e", "a", "p", " ", "S", "c", "a", "n">>) @@
    ("Bitmap Index Scan" :> <<"B", "i", "t", "m", "a", "p", " ", "I", "n", "d", "e", "x", " ", "S", "c", "a", "n">>) @@
    ("Nested Loop" :> <<"N", "e", "s", "t", "e", "d", " ", "L", "o", "o", "p">>) @@
    ("Hash Join" :> <<"H", "a", "s", "h", " ", "J", "o", "i", "n">>) @@
    ("Merge Join" :> <<"M", "e", "r", "g", "e", " ", "J", "o", "i", "n">>) @@
    ("Gather" :> <<"G", "a", "t", "h", "e", "r">>) @@
    ("Hash" :> <<"H", "a", "s", "h">>) @@
    ("Materialize" :> <<"M", "a", "t", "e", "r", "i", "a", "l", "i", "z", "e">>) @@
    ("Sort" :> <<"S", "o", "r", "t">>) @@
    ("Limit" :> <<"L", "i", "m", "i", "t">>) @@
    ("Aggregate" :> <<"A", "g", "g", "r", "e", "g", "a", "t", "e">>)

\* str.replace(' ', '_')
replace_spaces(s) == [i \in 1..Len(s) |-> IF s[i] = " " THEN "_" ELSE s[i]]

\* a sample of the strings random_string() draws: five uppercase letters
RandomStrings == {<<"A", "B", "C", "D", "E">>, <<"Q", "W", "E", "R", "T">>}

\* f"{self.node_type.replace(' ', '_')}_{random_string()}"
NodeId(node_type, suffix) == replace_spaces(NodeTypeChars[node_type]) \o <<"_">> \o suffix

(***************************************************************************)
(* The patterns of the traversal itself.                                   *)
(***************************************************************************)
\* [a-zA-Z_]
LetterChar(c) == c \in Lower \cup Upper \cup {"_"}

RECURSIVE LetterRunEnd(_, _)
LetterRunEnd(s, i) ==
    IF i <= Len(s) /\ LetterChar(s[i]) THEN LetterRunEnd(s, i + 1) ELSE i - 1

RECURSIVE FindFilterTables(_, _)
\* set(re.findall(r"([a-zA-Z_]+\.)[a-zA-Z_]+", filter)): the groups keep the dot
FindFilterTables(s, k) ==
    IF k > Len(s) THEN {}
    ELSE LET j == LetterRunEnd(s, k)
             e == LetterRunEnd(s, j + 2)
         IN  IF j >= k /\ j + 1 <= Len(s) /\ s[j + 1] = "." /\ e >= j + 2
             THEN {Slice(s, k, j + 1)} \cup FindFilterTables(s, e + 1)
             ELSE FindFilterTables(s, k + 1)

JoinAliases(ok, outer, inner, end) ==
    [ok |-> ok, outer |-> outer, inner |-> inner, end |-> end]

\* the right operand I+\.?I+ starting at p: t1, c1 are the ends of its runs
JoinAliasesRight(s, k, outer, p, t1, c1) ==
    IF t1 >= p /\ t1 + 1 <= Len(s) /\ s[t1 + 1] = "." /\ c1 >= t1 + 2
    THEN JoinAliases(TRUE, outer, Slice(s, p, t1), c1)
    ELSE IF t1 >= p + 1
    THEN JoinAliases(TRUE, outer, Slice(s, p, t1 - 1), t1)
    ELSE JoinAliases(FALSE, << >>, << >>, k)

JoinAliasesFrom(s, k, outer, p) ==
    JoinAliasesRight(s, k, outer, p, IdentRunEnd(s, p),
                     IdentRunEnd(s, IdentRunEnd(s, p) + 2))

\* the left operand I+\.?I+ starting at k, followed by " = ": r1, r2 are the
\* ends of its runs
JoinAliasesLeft(s, k, r1, r2) ==
    IF r1 >= k /\ r1 + 1 <= Len(s) /\ s[r1 + 1] = "." /\ r2 >= r1 + 2
       /\ OccursAt(EqSign, s, r2 + 1)
    THEN JoinAliasesFrom(s, k, Slice(s, k, r1), r2 + 4)
    ELSE IF r1 >= k + 1 /\ OccursAt(EqSign, s, r1 + 1)
    THEN JoinAliasesFrom(s, k, Slice(s, k, r1 - 1), r1 + 4)
    ELSE JoinAliases(FALSE, << >>, << >>, k)

\* the match of (?P<outer>I+)\.?I+ = (?P<inner>I+)\.?I+ starting exactly at k
JoinAliasesAt(s, k) ==
    JoinAliasesLeft(s, k, IdentRunEnd(s, k), IdentRunEnd(s, IdentRunEnd(s, k) + 2))

RECURSIVE FindJoinAliases(_, _)
\* m is the match at k
JoinAliasesNext(s, k, m) ==
    IF m.ok
    THEN <<[outer |-> m.outer, inner |-> m.inner]>> \o FindJoinAliases(s, m.end + 1)
    ELSE FindJoinAliases(s, k + 1)

\* re.findall of that pattern: the list of (outer, inner) pairs
FindJoinAliases(s, k) ==
    IF k > Len(s) THEN << >> ELSE JoinAliasesNext(s, k, JoinAliasesAt(s, k))

(***************************************************************************)
(* The methods of DatabaseConnection the traversal calls.  ctx carries the *)
(* engine (db), the connection's list of created views (con_views) and the *)
(* record of the requests sent to the engine (log).                        *)
(***************************************************************************)
Request(op, node, name, arg, err) ==
    [op |-> op, node |-> node, name |-> name, arg |-> arg, err |-> err]

\* a is the engine's answer to the query
BlockIdsFetched(ctx, node, relation_name, condition, a) ==
    [err |-> a.err, out |-> a.out,
     ctx |-> [ctx EXCEPT !.db = a.db,
                         !.log = Append(@, Request("block_ids", node, relation_name,
                                                   condition, a.err))]]

get_relation_block_ids(ctx, node, relation_name, condition) ==
    BlockIdsFetched(ctx, node, relation_name, condition,
                    ExecBlockIds(ctx.db, relation_name, condition))

\* a faulty variant: the name is recorded whatever the engine answers
ViewCreatedAlways(ctx, node, view_name, statement, a) ==
    IF a.err # "none"
    THEN [err |-> a.err,
          ctx |-> [db |-> rollback(a.db), con_views |-> Append(ctx.con_views, view_name),
                   log |-> ctx.log
                           \o <<Request("create_view", node, view_name, statement, a.err),
                                Request("rollback", node, view_name, statement, "none")>>]]
    ELSE [err |-> "none",
          ctx |-> [db |-> a.db, con_views |-> Append(ctx.con_views, view_name),
                   log |-> Append(ctx.log,
                                  Request("create_view", node, view_name, statement, "none"))]]

\* a is the engine's answer to the CREATE VIEW statement
ViewCreated(ctx, node, view_name, statement, a) ==
    IF a.err # "none"
    THEN [err |-> a.err,
          ctx |-> [db |-> rollback(a.db), con_views |-> ctx.con_views,
                   log |-> ctx.log
                           \o <<Request("create_view", node, view_name, statement, a.err),
                                Request("rollback", node, view_name, statement, "none")>>]]
    ELSE [err |-> "none",
          ctx |-> [db |-> a.db, con_views |-> Append(ctx.con_views, view_name),
                   log |-> Append(ctx.log,
                                  Request("create_view", node, view_name, statement, "none"))]]

create_view(ctx, node, view_name, statement) ==
    ViewCreated(ctx, node, view_name, statement,
                ExecCreateView(ctx.db, view_name, statement))

\* a is the engine's answer to the query
ColNamesFetched(ctx, node, table_name, a) ==
    [err |-> a.err, out |-> a.out,
     ctx |-> [ctx EXCEPT !.log = Append(@, Request("col_names", node, table_name,
                                                   None, a.err))]]

get_table_col_names(ctx, node, table_name) ==
    ColNamesFetched(ctx, node, table_name, ExecColumnNames(ctx.db, lower(table_name)))

RECURSIVE DropViews(_, _)
\* a is the engine's answer to DROP VIEW for the i-th view of self.views; an
\* error leaves the loop (and __del__)
ViewDropped(ctx, i, a) ==
    IF a.err # "none"
    THEN [ctx EXCEPT !.db = a.db,
                     !.log = Append(@, Request("drop_view", 0, ctx.con_views[i], None, a.err))]
    ELSE DropViews([ctx EXCEPT !.db = a.db,
                               !.log = Append(@, Request("drop_view", 0, ctx.con_views[i],
                                                         None, "none"))],
                   i + 1)

\* __del__: for view in self.views: cursor.execute(f"DROP VIEW {view}")
DropViews(ctx, i) ==
    IF i > Len(ctx.con_views) THEN ctx
    ELSE ViewDropped(ctx, i, ExecDropView(ctx.db, ctx.con_views[i]))

(***************************************************************************)
(* QueryExecutionPlan._merge_blocks_accessed                               *)
(***************************************************************************)
\* a faulty variant: the relation's set is overwritten instead of updated
MergeItemOverwrite(blocks, relation, block_ids) ==
    (relation :> block_ids) @@ blocks

\* one turn of the loop over blocks_accessed.items()
MergeItem(blocks, relation, block_ids) ==
    IF relation \in DOMAIN blocks
    THEN [blocks EXCEPT ![relation] = @ \cup block_ids]
    ELSE (relation :> block_ids) @@ blocks

RECURSIVE MergeItems(_, _, _)
MergeNext(blocks, partial, todo, relation) ==
    MergeItems(MergeItem(blocks, relation, partial[relation]), partial, todo \ {relation})

MergeItems(blocks, partial, todo) ==
    IF todo = {} THEN blocks
    ELSE MergeNext(blocks, partial, todo, CHOOSE r \in todo : TRUE)

_merge_blocks_accessed(blocks, partial) == MergeItems(blocks, partial, DOMAIN partial)

(***************************************************************************)
(* QueryExecutionPlan._get_blocks_accessed: the cases of the match on      *)
(* root.node_type, for the node at index n.  st is the state the case      *)
(* starts in: [ctx, views, plan].  The outcome holds the exception raised  *)
(* ("none": the case ran to its end), the state it leaves, and the node's  *)
(* own blocks_accessed, merged by the caller when nothing was raised.      *)
(***************************************************************************)
Outcome(exc, ctx, views, plan, partial) ==
    [exc |-> exc, ctx |-> ctx, views |-> views, plan |-> plan, partial |-> partial]

\* the case raises exc: views and plan stay as they were
Raise(exc, ctx, st) == Outcome(exc, ctx, st.views, st.plan, << >>)

UndefinedObject == {"UndefinedTable", "UndefinedParameter"}

\* a faulty variant: the registry is started anew at every scan
RegisterScanAnew(views, root) ==
    IF Get(root, ALIAS) # None THEN (Get(root, ALIAS) :> root.node_id) ELSE << >>

\* if root[ALIAS] is not None: self.views[root[ALIAS]] = root.node_id
RegisterScan(views, root) ==
    IF Get(root, ALIAS) # None THEN (Get(root, ALIAS) :> root.node_id) @@ views ELSE views

\* the try block of the case: v is the outcome of con.create_view
SeqScanView(st, root, blocks, v) ==
    IF v.err = "none" THEN Outcome("none", v.ctx, RegisterScan(st.views, root), st.plan, blocks)
    ELSE IF v.err \in UndefinedObject THEN Outcome("none", v.ctx, st.views, st.plan, blocks)
    ELSE Raise(v.err, v.ctx, st)

\* b is the outcome of con.get_relation_block_ids
SeqScanBlocks(st, n, root, b) ==
    IF b.err # "none" THEN Raise(b.err, b.ctx, st)
    ELSE SeqScanView(st, root, (Get(root, "Relation Name") :> b.out),
                     create_view(b.ctx, n, root.node_id,
                                 build_select(Get(root, "Relation Name"),
                                              <<Get(root, "Filter")>>, << >>, None)))

\* a faulty variant: the block query carries the node's Filter
SeqScanCaseFiltered(st, n) ==
    SeqScanBlocks(st, n, st.plan[n],
                  get_relation_block_ids(st.ctx, n, Get(st.plan[n], "Relation Name"),
                                         Get(st.plan[n], "Filter")))

\* case "Seq Scan" | "Parallel Seq Scan"
SeqScanCase(st, n) ==
    SeqScanBlocks(st, n, st.plan[n],
                  get_relation_block_ids(st.ctx, n, Get(st.plan[n], "Relation Name"), None))

\* index_cond = root["Index Cond"], or root[RECHECK_COND] for a Bitmap Heap Scan
CondAttribute(root) ==
    IF root.node_type = "Bitmap Heap Scan" THEN Get(root, RECHECK_COND)
    ELSE Get(root, INDEX_COND)

\* replaced is the outcome of replace_aliases_with_views
AlterIfJoin(replaced) ==
    IF replaced.exc = "ViewNotFoundException" THEN Raised("UnsupportedQueryException")
    ELSE IF condition_is_join(replaced.val) THEN alter_join_condition(replaced.val)
    ELSE replaced

\* the index condition the case goes on with, or the exception raised
RewriteIndexCond(index_cond, views, order) ==
    IF index_cond = None THEN Returned(None)
    ELSE AlterIfJoin(replace_aliases_with_views(index_cond, views, order))

\* a faulty variant: every node of the case queries the blocks
ReadsBlocksAlways(node_type) ==
    node_type \in {"Index Scan", "Index Only Scan", "Bitmap Heap Scan"}

\* "Index only scan do not access blocks"
ReadsBlocks(node_type) == node_type \in {"Index Scan", "Bitmap Heap Scan"}

\* a faulty variant: an undefined object is tolerated as at a Seq Scan
IndexScanViewTolerant(st, root, blocks, v) ==
    IF v.err = "none" THEN Outcome("none", v.ctx, RegisterScan(st.views, root), st.plan, blocks)
    ELSE IF v.err \in UndefinedObject THEN Outcome("none", v.ctx, st.views, st.plan, blocks)
    ELSE Raise(v.err, v.ctx, st)

\* the try block of the case: v is the outcome of con.create_view
IndexScanView(st, root, blocks, v) ==
    IF v.err = "none" THEN Outcome("none", v.ctx, RegisterScan(st.views, root), st.plan, blocks)
    ELSE IF v.err \in UndefinedObject THEN Raise("UnsupportedQueryException", v.ctx, st)
    ELSE Raise(v.err, v.ctx, st)

\* b is the outcome of con.get_relation_block_ids (of no request, for an
\* Index Only Scan)
IndexScanBlocks(st, n, root, index_cond, b) ==
    IF b.err # "none" THEN Raise(b.err, b.ctx, st)
    ELSE IndexScanView(st, root,
                       IF ReadsBlocks(root.node_type)
                       THEN (Get(root, "Relation Name") :> b.out) ELSE << >>,
                       create_view(b.ctx, n, root.node_id,
                                   build_select(Get(root, "Relation Name"),
                                                <<index_cond, Get(root, "Filter")>>,
                                                << >>, None)))

\* the loop over the aliases of the filter: self.views[table[:-1]]
FilterKeyError(filter, views) ==
    /\ filter # None
    /\ \E table \in FindFilterTables(filter, 1) :
           Slice(table, 1, Len(table) - 1) \notin DOMAIN views

\* c is the rewritten index condition, or the exception the rewriting raised
IndexScanCond(st, n, root, c) ==
    IF c.exc # "none" THEN Raise(c.exc, st.ctx, st)
    ELSE IF FilterKeyError(Get(root, "Filter"), st.views) THEN Raise("KeyError", st.ctx, st)
    ELSE IndexScanBlocks(st, n, root, c.val,
                         IF ReadsBlocks(root.node_type)
                         THEN get_relation_block_ids(st.ctx, n, Get(root, "Relation Name"), c.val)
                         ELSE [err |-> "none", out |-> {}, ctx |-> st.ctx])

\* case "Index Scan" | "Index Only Scan" | "Bitmap Heap Scan"; order is the
\* iteration order of the alias set inside replace_aliases_with_views
IndexScanCase(st, n, order) ==
    IndexScanCond(st, n, st.plan[n],
                  RewriteIndexCond(CondAttribute(st.plan[n]), st.views, order))

\* get_child_with_attribute: next(...) over the children, in order; 0 stands
\* for the StopIteration next() raises when no child has the value
get_child_with_attribute(plan, node, attr_name, attr_val) ==
    IF \A i \in 1..Len(node.children) : Get(plan[node.children[i]], attr_name) # attr_val
    THEN 0
    ELSE node.children[CHOOSE i \in 1..Len(node.children) :
                          /\ Get(plan[node.children[i]], attr_name) = attr_val
                          /\ \A j \in 1..(i - 1) :
                                 Get(plan[node.children[j]], attr_name) # attr_val]

RECURSIVE SubstituteJoinAliases(_, _, _, _, _, _)
\* the loop over the (outer_alias, inner_alias) matches
SubstituteJoinAliases(join_cond, matches, i, swap, inner_id, outer_id) ==
    IF i > Len(matches) THEN join_cond
    ELSE SubstituteJoinAliases(
             re_sub((IF swap THEN matches[i].inner ELSE matches[i].outer) \o <<".">>,
                    outer_id \o <<".">>,
                    re_sub((IF swap THEN matches[i].outer ELSE matches[i].inner) \o <<".">>,
                           inner_id \o <<".">>, join_cond)),
             matches, i + 1, swap, inner_id, outer_id)

\* the join condition of the node before the aliases are replaced
JoinCondAttribute(root, inner) ==
    IF root.node_type = "Nested Loop"
    THEN (IF Get(inner, INDEX_COND) # None THEN Get(inner, INDEX_COND) ELSE << >>)
    ELSE IF root.node_type = "Hash Join" THEN Get(root, HASH_COND)
    ELSE Get(root, MERGE_COND)

\* set(inner_cols).symmetric_difference(outer_cols), extended with the
\* columns of set().intersection(inner_cols, outer_cols)
SelectCols(inner_cols, outer_cols, inner_id) ==
    ((inner_cols \ outer_cols) \cup (outer_cols \ inner_cols))
    \cup {inner_id \o <<".">> \o col : col \in ({} \cap inner_cols) \cap outer_cols}

\* a faulty variant: the join counts a block for every registered alias
JoinViewCounted(st, v) ==
    Outcome(v.err, v.ctx, st.views, st.plan, [a \in DOMAIN st.views |-> {1}])

\* v is the outcome of con.create_view: what it raises is not caught
JoinView(st, v) == Outcome(v.err, v.ctx, st.views, st.plan, << >>)

\* a faulty variant: whatever the join's CREATE VIEW raises is turned into
\* UnsupportedQueryException
JoinStatementBuiltConverted(st, n, root, ctx, j) ==
    IF j.exc # "none" THEN Raise(j.exc, ctx, st)
    ELSE Raise("UnsupportedQueryException",
               create_view(ctx, n, root.node_id, j.val).ctx, st)

\* j is the outcome of build_join
JoinStatementBuilt(st, n, root, ctx, j) ==
    IF j.exc # "none" THEN Raise(j.exc, ctx, st)
    ELSE JoinView(st, create_view(ctx, n, root.node_id, j.val))

\* ic, oc are the outcomes of the two con.get_table_col_names
JoinCols(st, n, root, inner, outer, join_cond, ic, oc) ==
    IF ic.err # "none" THEN Raise(ic.err, ic.ctx, st)
    ELSE IF oc.err # "none" THEN Raise(oc.err, oc.ctx, st)
    ELSE JoinStatementBuilt(st, n, root, oc.ctx,
                            build_join(inner.node_id, outer.node_id, join_cond,
                                       Get(root, JOIN_TYPE),
                                       SelectCols(ic.out, oc.out, inner.node_id)))

\* join_cond is the condition with the aliases replaced
JoinColumns(st, n, root, inner, outer, join_cond, ic) ==
    JoinCols(st, n, root, inner, outer, join_cond, ic,
             get_table_col_names(ic.ctx, n, outer.node_id))

\* join_cond is the condition as the plan holds it
JoinCond(st, n, root, inner, outer, join_cond) ==
    IF join_cond = None THEN Raise("TypeError", st.ctx, st)
    ELSE JoinColumns(st, n, root, inner, outer,
                     IF join_cond = << >> THEN << >>
                     ELSE SubstituteJoinAliases(join_cond, FindJoinAliases(join_cond, 1), 1,
                                                root.node_type = "Nested Loop",
                                                inner.node_id, outer.node_id),
                     get_table_col_names(st.ctx, n, inner.node_id))

\* i, o are the children get_child_with_attribute gives
JoinChildren(st, n, root, i, o) ==
    IF i = 0 \/ o = 0 THEN Raise("StopIteration", st.ctx, st)
    ELSE JoinCond(st, n, root, st.plan[i], st.plan[o], JoinCondAttribute(root, st.plan[i]))

\* case "Nested Loop" | "Hash Join" | "Merge Join"
JoinCase(st, n) ==
    JoinChildren(st, n, st.plan[n],
                 get_child_with_attribute(st.plan, st.plan[n], PARENT_RELATIONSHIP, <<"Inner">>),
                 get_child_with_attribute(st.plan, st.plan[n], PARENT_RELATIONSHIP, <<"Outer">>))

\* a faulty variant: the alias is registered but not written to the node
PassThroughViewUnnamed(st, n, child, v) ==
    IF v.err = "none"
    THEN Outcome("none", v.ctx, (Get(child, ALIAS) :> st.plan[n].node_id) @@ st.views,
                 st.plan, << >>)
    ELSE IF v.err \in UndefinedObject THEN Outcome("none", v.ctx, st.views, st.plan, << >>)
    ELSE Raise(v.err, v.ctx, st)

\* the try block of the case: v is the outcome of con.create_view
PassThroughView(st, n, child, v) ==
    IF v.err = "none"
    THEN Outcome("none", v.ctx,
                 (Get(child, ALIAS) :> st.plan[n].node_id) @@ st.views,
                 [st.plan EXCEPT ![n].attributes = (ALIAS :> Get(child, ALIAS)) @@ @],
                 << >>)
    ELSE IF v.err \in UndefinedObject THEN Outcome("none", v.ctx, st.views, st.plan, << >>)
    ELSE Raise(v.err, v.ctx, st)

\* case "Gather Merge" | "Gather" | "Hash" | "Materialize" | "Sort" | "Memoize"
\* (limit = None), and case "Limit" (limit = root["Plan Rows"]).  The second
\* case "Sort" of the match is never reached: the first one takes every Sort.
PassThroughCase(st, n, limit) ==
    PassThroughView(st, n, st.plan[st.plan[n].children[1]],
                    create_view(st.ctx, n, st.plan[n].node_id,
                                build_select(st.plan[st.plan[n].children[1]].node_id,
                                             << >>, << >>, limit)))

\* a faulty variant: the node is handled as a pass-through node
OtherCaseWithView(st, n) ==
    PassThroughView(st, n, st.plan[st.plan[n].children[1]],
                    create_view(st.ctx, n, st.plan[n].node_id,
                                build_select(st.plan[st.plan[n].children[1]].node_id,
                                             << >>, << >>, None)))

\* case _
OtherCase(st, n) == Outcome("none", st.ctx, st.views, st.plan, << >>)

ScanTypes == {"Seq Scan", "Parallel Seq Scan"}
IndexTypes == {"Index Scan", "Index Only Scan", "Bitmap Heap Scan"}
JoinTypes == {"Nested Loop", "Hash Join", "Merge Join"}
PassThroughTypes == {"Gather Merge", "Gather", "Hash", "Materialize", "Sort", "Memoize"}

(***************************************************************************)
(* The plans analysed: the trees of at most MaxNodes nodes in which a scan *)
(* is a leaf, a join has two children and every other node has one child,  *)
(* as in the plans EXPLAIN reports.                                        *)
(***************************************************************************)
AliasA == <<"a">>
AliasB == <<"b">>

ScanAttrs(relation, alias) == ("Relation Name" :> relation) @@ (ALIAS :> alias)

Leaf(node_type, attributes) ==
    [node_type |-> node_type, attributes |-> attributes, child_tags |-> << >>]

LeafTemplates ==
    { Leaf("Seq Scan", ScanAttrs(RelR, AliasA)),
      Leaf("Seq Scan", ScanAttrs(RelR, AliasA) @@ ("Filter" :> <<"i", "d", " ", "=", " ", "5">>)),
      Leaf("Seq Scan", ScanAttrs(RelR, AliasA) @@ ("Filter" :> <<"r", "v", " ", "=", " ", "b", ".", "s", "v">>)),
      Leaf("Seq Scan", ScanAttrs(RelR, AliasA) @@ ("Filter" :> <<"i", "d", " ", "=", " ", "$", "1">>)),
      Leaf("Seq Scan", ScanAttrs(RelS, AliasB)),
      Leaf("Parallel Seq Scan", ScanAttrs(RelR, AliasA)),
      Leaf("Index Scan", ScanAttrs(RelS, AliasB) @@ (INDEX_COND :> <<"i", "d", " ", "=", " ", "5">>)),
      Leaf("Index Scan", ScanAttrs(RelS, AliasB) @@ (INDEX_COND :> <<"s", "v", " ", "=", " ", "a", ".", "r", "v">>)),
      Leaf("Index Scan", ScanAttrs(RelS, AliasB) @@ (INDEX_COND :> <<"b", ".", "i", "d", " ", "=", " ", "5">>)),
      Leaf("Index Scan", ScanAttrs(RelR, AliasA) @@ (INDEX_COND :> <<"i", "d", " ", "=", " ", "5">>)),
      Leaf("Index Only Scan", ScanAttrs(RelS, AliasB) @@ (INDEX_COND :> <<"i", "d", " ", "=", " ", "5">>)),
      Leaf("Index Only Scan", ScanAttrs(RelS, AliasB) @@ (INDEX_COND :> <<"s", "v", " ", "=", " ", "a", ".", "r", "v">>)
                                                      @@ ("Filter" :> <<"i", "d", " ", "=", " ", "5">>)),
      Leaf("Index Only Scan", ScanAttrs(RelS, AliasB) @@ (INDEX_COND :> <<"i", "d", " ", "=", " ", "$", "1">>)),
      Leaf("Index Scan", ScanAttrs(RelS, AliasB) @@ (INDEX_COND :> <<"i", "d", " ", "=", " ", "5">>)
                                                 @@ ("Filter" :> <<"s", "v", " ", "=", " ", "a", ".", "r", "v">>)) }

Unary(node_type, attributes) ==
    [node_type |-> node_type, attributes |-> attributes, child_tags |-> << <<"Outer">> >>]

UnaryTemplates ==
    { Unary("Hash", << >>),
      Unary("Sort", (SORT_KEY :> << <<"i", "d">> >>)),
      Unary("Limit", ("Plan Rows" :> <<"1">>)),
      Unary("Aggregate", << >>) }

Join(node_type, attributes, child_tags) ==
    [node_type |-> node_type, attributes |-> attributes, child_tags |-> child_tags]

\* the last two are joins no plan of the engine holds: a side is missing
JoinTemplates ==
    { Join("Nested Loop", (JOIN_TYPE :> <<"Inner">>), << <<"Outer">>, <<"Inner">> >>),
      Join("Hash Join", (JOIN_TYPE :> <<"Inner">>) @@ (HASH_COND :> <<"a", ".", "r", "v", " ", "=", " ", "b", ".", "s", "v">>),
           << <<"Outer">>, <<"Inner">> >>),
      Join("Merge Join", (JOIN_TYPE :> <<"Inner">>) @@ (MERGE_COND :> <<"a", ".", "i", "d", " ", "=", " ", "b", ".", "i", "d">>),
           << <<"Outer">>, <<"Inner">> >>),
      Join("Hash Join", (JOIN_TYPE :> <<"Semi">>) @@ (HASH_COND :> <<"a", ".", "r", "v", " ", "=", " ", "b", ".", "s", "v">>),
           << <<"Outer">>, <<"Inner">> >>),
      Join("Hash Join", (JOIN_TYPE :> <<"Inner">>) @@ (HASH_COND :> <<"a", ".", "r", "v", " ", "=", " ", "b", ".", "s", "v">>),
           << <<"Inner">>, <<"Inner">> >>),
      Join("Nested Loop", (JOIN_TYPE :> <<"Inner">>), << <<"Outer">>, <<"Outer">> >>) }

RECURSIVE TreesOfSize(_)
TreesOfSize(n) ==
    IF n = 1 THEN {[tpl |-> t, kids |-> << >>] : t \in LeafTemplates}
    ELSE {[tpl |-> u, kids |-> <<k>>] : u \in UnaryTemplates, k \in TreesOfSize(n - 1)}
         \cup UNION {{[tpl |-> j, kids |-> <<k1, k2>>] :
                         j \in JoinTemplates, k1 \in TreesOfSize(i),
                         k2 \in TreesOfSize(n - 1 - i)} : i \in 1..(n - 2)}

\* a plan of four nodes, as EXPLAIN reports it for a join with ORDER BY: a
\* Sort over a Hash Join of two scans
ExampleTrees ==
    { [tpl |-> Unary("Sort", (SORT_KEY :> << <<"r", "v">> >>)),
       kids |-> << [tpl |-> Join("Hash Join",
                                 (JOIN_TYPE :> <<"Inner">>)
                                 @@ (HASH_COND :> <<"a", ".", "r", "v", " ", "=", " ",
                                                    "b", ".", "s", "v">>),
                                 << <<"Outer">>, <<"Inner">> >>),
                    kids |-> << [tpl |-> Leaf("Seq Scan", ScanAttrs(RelR, AliasA)),
                                 kids |-> << >>],
                                [tpl |-> Leaf("Seq Scan", ScanAttrs(RelS, AliasB)),
                                 kids |-> << >>] >>] >>] }

RECURSIVE TreeSize(_)
TreeSize(t) ==
    IF Len(t.kids) = 0 THEN 1
    ELSE IF Len(t.kids) = 1 THEN 1 + TreeSize(t.kids[1])
    ELSE 1 + TreeSize(t.kids[1]) + TreeSize(t.kids[2])

RECURSIVE Flatten(_, _, _)
\* Node.__post_init__ without the node_id: the node at index `first`, then
\* its subtrees; tag is the node's Parent Relationship (None at the root)
Flatten(t, first, tag) ==
    LET attributes == IF tag = None THEN t.tpl.attributes
                      ELSE (PARENT_RELATIONSHIP :> tag) @@ t.tpl.attributes
        second == first + 1 + (IF Len(t.kids) > 0 THEN TreeSize(t.kids[1]) ELSE 0)
        children == IF Len(t.kids) = 0 THEN << >>
                    ELSE IF Len(t.kids) = 1 THEN <<first + 1>>
                    ELSE <<first + 1, second>>
        node == [node_type |-> t.tpl.node_type, node_id |-> << >>,
                 attributes |-> attributes, children |-> children]
    IN  IF Len(t.kids) = 0 THEN <<node>>
        ELSE IF Len(t.kids) = 1
        THEN <<node>> \o Flatten(t.kids[1], first + 1, t.tpl.child_tags[1])
        ELSE <<node>> \o Flatten(t.kids[1], first + 1, t.tpl.child_tags[1])
                      \o Flatten(t.kids[2], second, t.tpl.child_tags[2])

\* the draws of random_string() for the nodes of a tree.  The first node of
\* each node type takes the first string of the sample (the letters drawn
\* touch nothing but the equality of two identifiers).
SuffixDraws(nodes) ==
    {suf \in [1..Len(nodes) -> RandomStrings] :
        \A i \in 1..Len(nodes) :
            (\A j \in 1..(i - 1) : nodes[j].node_type # nodes[i].node_type)
                => suf[i] = <<"A", "B", "C", "D", "E">>}

WithIds(nodes, suf) ==
    [i \in 1..Len(nodes) |->
        [nodes[i] EXCEPT !.node_id = NodeId(nodes[i].node_type, suf[i])]]

Planned(nodes) == {WithIds(nodes, suf) : suf \in SuffixDraws(nodes)}

(***************************************************************************)
(* State.                                                                  *)
(*   plan             the nodes of the QueryExecutionPlan, root first      *)
(*   views            QueryExecutionPlan.views, alias -> view name         *)
(*   blocks_accessed  QueryExecutionPlan._blocks_accessed                  *)
(*   gotten           QueryExecutionPlan._gotten_blocks_accessed           *)
(*   stack            the frames of _get_blocks_accessed: the node and the *)
(*                    next child the for loop visits                       *)
(*   calls, results   the calls of get_blocks_accessed and what each one   *)
(*                    returned or raised                                   *)
(*   con_views        DatabaseConnection.views                             *)
(*   db               the engine: the views of the open transaction, and   *)
(*                    whether the transaction is aborted                   *)
(*   log              the calls made, the nodes processed and the requests *)
(*                    sent to the engine, in order                         *)
(*   rw               a condition and a registry, and what the condition   *)
(*                    rewriters make of them                               *)
(*   mg               two block maps, and what merging them gives          *)
(***************************************************************************)
VARIABLES plan, views, blocks_accessed, gotten, stack, calls, results,
          con_views, db, log, rw, mg

qep_vars == <<plan, views, blocks_accessed, gotten, stack, calls, results,
              con_views, db, log>>

vars == <<plan, views, blocks_accessed, gotten, stack, calls, results,
          con_views, db, log, rw, mg>>

NotCalled == [exc |-> "not called", val |-> << >>]
Running == [exc |-> "running", val |-> << >>]

NoRewrite == [statement |-> << >>, views |-> << >>, once |-> NotCalled,
              twice |-> NotCalled, altered |-> NotCalled, is_join |-> NotCalled,
              nested |-> FALSE, joined |-> NotCalled]

NoMerge == [blocks |-> << >>, partial |-> << >>, merged |-> NotCalled]

\* QueryExecutionPlan.__init__ on a fresh connection
InitQep(p) ==
    /\ plan = p
    /\ views = << >>
    /\ blocks_accessed = << >>
    /\ gotten = FALSE
    /\ stack = << >>
    /\ calls = 0
    /\ results = << >>
    /\ con_views = << >>
    /\ db = [views |-> << >>, aborted |-> FALSE]
    /\ log = << >>

Init ==
    /\ \E t \in UNION {TreesOfSize(n) : n \in 1..MaxNodes} \cup ExampleTrees :
           \E p \in Planned(Flatten(t, 1, None)) : InitQep(p)
    /\ rw = NoRewrite
    /\ mg = NoMerge

Top == stack[Len(stack)]
TopNode == plan[Top.node]

\* the DatabaseConnection has been destroyed
Ended == log # << >> /\ log[Len(log)].op = "del"

\* get_blocks_accessed
Call ==
    /\ stack = << >>
    /\ ~Ended
    /\ calls < MaxCalls
    /\ calls' = calls + 1
    /\ log' = Append(log, Request("call", 0, << >>, None, "none"))
    /\ IF gotten
       THEN /\ results' = Append(results, Returned(blocks_accessed))
            /\ UNCHANGED stack
       ELSE /\ results' = Append(results, Running)
            /\ stack' = <<[node |-> 1, next |-> 1]>>
    /\ UNCHANGED <<plan, views, blocks_accessed, gotten, con_views, db, rw, mg>>

\* for child in root.children: self._get_blocks_accessed(child, con)
Descend ==
    /\ stack # << >>
    /\ Top.next <= Len(TopNode.children)
    /\ stack' = [stack EXCEPT ![Len(stack)].next = @ + 1]
                \o <<[node |-> TopNode.children[Top.next], next |-> 1]>>
    /\ UNCHANGED <<plan, views, blocks_accessed, gotten, calls, results, con_views, db,
                   log, rw, mg>>

\* a faulty variant: the match runs before the loop over the children
ReadyBeforeChildren(types) ==
    /\ stack # << >>
    /\ Top.next = 1
    /\ TopNode.node_type \in types

\* the children are done: the match on root.node_type can run
Ready(types) ==
    /\ stack # << >>
    /\ Top.next > Len(TopNode.children)
    /\ TopNode.node_type \in types

\* the state a case starts in
Start ==
    [ctx |-> [db |-> db, con_views |-> con_views,
              log |-> Append(log, Request("process", Top.node, TopNode.node_id, None, "none"))],
     views |-> views, plan |-> plan]

\* a faulty variant: the frame of the parent catches what the case raises and
\* goes on
FinishCaught(out) ==
    /\ db' = out.ctx.db
    /\ con_views' = out.ctx.con_views
    /\ log' = out.ctx.log
    /\ views' = out.views
    /\ plan' = out.plan
    /\ blocks_accessed' = _merge_blocks_accessed(blocks_accessed, out.partial)
    /\ stack' = SubSeq(stack, 1, Len(stack) - 1)
    /\ results' = IF out.exc # "none" THEN [results EXCEPT ![calls] = Raised(out.exc)]
                  ELSE IF Len(stack) = 1
                  THEN [results EXCEPT ![calls] = Returned(blocks_accessed')]
                  ELSE results
    /\ UNCHANGED <<gotten, calls, rw, mg>>

\* the case has run: self._merge_blocks_accessed(blocks_accessed) and the
\* return to the caller, or the exception unwinding every frame
Finish(out) ==
    /\ db' = out.ctx.db
    /\ con_views' = out.ctx.con_views
    /\ log' = out.ctx.log
    /\ views' = out.views
    /\ plan' = out.plan
    /\ IF out.exc = "none"
       THEN /\ blocks_accessed' = _merge_blocks_accessed(blocks_accessed, out.partial)
            /\ stack' = SubSeq(stack, 1, Len(stack) - 1)
            /\ results' = IF Len(stack) = 1
                          THEN [results EXCEPT ![calls] = Returned(blocks_accessed')]
                          ELSE results
       ELSE /\ blocks_accessed' = blocks_accessed
            /\ stack' = << >>
            /\ results' = [results EXCEPT ![calls] = Raised(out.exc)]
    /\ UNCHANGED <<gotten, calls, rw, mg>>

ProcessSeqScan ==
    /\ Ready(ScanTypes)
    /\ Finish(SeqScanCase(Start, Top.node))

ProcessIndexScan ==
    /\ Ready(IndexTypes)
    /\ \E order \in Orders(IF CondAttribute(TopNode) = None THEN {}
                           ELSE get_aliases_in_condition(CondAttribute(TopNode))) :
           Finish(IndexScanCase(Start, Top.node, order))

ProcessJoin ==
    /\ Ready(JoinTypes)
    /\ Finish(JoinCase(Start, Top.node))

ProcessPassThrough ==
    /\ Ready(PassThroughTypes)
    /\ Finish(PassThroughCase(Start, Top.node, None))

ProcessLimit ==
    /\ Ready({"Limit"})
    /\ Finish(PassThroughCase(Start, Top.node, Get(TopNode, "Plan Rows")))

ProcessOther ==
    /\ Ready(DOMAIN NodeTypeChars \ (ScanTypes \cup IndexTypes \cup JoinTypes
                                     \cup PassThroughTypes \cup {"Limit"}))
    /\ Finish(OtherCase(Start, Top.node))

\* DatabaseConnection.reconnect, which execute_query calls before it analyses
\* a query: self._con is replaced.  (On a connection that has sent nothing
\* yet it changes nothing: the step is taken between two analyses.)
Reconnect ==
    /\ stack = << >>
    /\ ~Ended
    /\ calls >= 1 /\ calls < MaxCalls
    /\ log[Len(log)].op # "reconnect"
    /\ db' = close(db)
    /\ log' = Append(log, Request("reconnect", 0, << >>, None, "none"))
    /\ UNCHANGED <<plan, views, blocks_accessed, gotten, stack, calls, results, con_views,
                   rw, mg>>

\* the state __del__ starts in
Idle == [db |-> db, con_views |-> con_views, log |-> log]

\* ctx: the state the loop of __del__ leaves; then the connection object is
\* released with the DatabaseConnection
Deleted(ctx) ==
    /\ db' = close(ctx.db)
    /\ log' = Append(ctx.log, Request("del", 0, << >>, None, "none"))

\* DatabaseConnection.__del__: the session ends, after an analysis that
\* returned or raised, or before any
SessionEnd ==
    /\ stack = << >>
    /\ ~Ended
    /\ Deleted(DropViews(Idle, 1))
    /\ UNCHANGED <<plan, views, blocks_accessed, gotten, stack, calls, results, con_views,
                   rw, mg>>

Next ==
    \/ Call
    \/ Descend
    \/ ProcessSeqScan
    \/ ProcessIndexScan
    \/ ProcessJoin
    \/ ProcessPassThrough
    \/ ProcessLimit
    \/ ProcessOther

Spec == Init /\ [][Next]_vars

\* the analyses of a plan within the life of the connection
NextSession ==
    \/ Next
    \/ Reconnect
    \/ SessionEnd

SpecSession == Init /\ [][NextSession]_vars

(***************************************************************************)
(* The condition rewriters on their own: replace_aliases_with_views        *)
(* applied once and once more to its own result, condition_is_join and     *)
(* alter_join_condition, on a drawn condition and registry; and the        *)
(* rewriting of a join condition by the join case.                         *)
(***************************************************************************)
\* the pieces the drawn conditions are made of
TokPool == {<<"a">>, <<"b">>, <<".">>, EqSign, <<"0">>}

RECURSIVE TokStrings(_)
\* the strings of exactly n pieces
TokStrings(n) ==
    IF n = 0 THEN {<< >>}
    ELSE {s \o t : s \in TokStrings(n - 1), t \in TokPool}

\* operands of a comparison, as the conditions of a plan hold them
OperandPool ==
    { <<"a", ".", "x">>, <<"b", ".", "x", "0">>, <<"b", "a", ".", "x">>,
      <<"x">>, <<"x", "a">>, <<"5">> }

ExampleStatements ==
    { <<"a", ".", "i", "d", " ", "=", " ", "b", ".", "x">>,
      <<"a", ".", "i", "d", " ", "=", " ", "b", ".", "x", "0">>,
      <<"a", ".", "i", "d", "0", " ", "=", " ", "b", ".", "x">>,
      <<"p", "s", ".", "x", " ", "=", " ", "s", ".", "y">>,
      <<"(", "a", ".", "x", " ", "=", " ", "b", ".", "x", ")">> }

\* comparisons of two operands
Comparisons ==
    {l \o EqSign \o r : l \in OperandPool, r \in OperandPool} \cup ExampleStatements

Statements == UNION {TokStrings(n) : n \in 0..MaxToks} \cup Comparisons

ViewA == NodeId("Seq Scan", <<"A", "B", "C", "D", "E">>)
ViewB == NodeId("Hash", <<"Q", "W", "E", "R", "T">>)

\* registries: alias -> view name
Registries ==
    { << >>,
      (<<"a">> :> ViewA),
      (<<"a">> :> ViewA) @@ (<<"b">> :> ViewB),
      (<<"a">> :> ViewA) @@ (<<"b", "a">> :> ViewB),
      (<<"p", "s">> :> ViewA) @@ (<<"s">> :> ViewB),
      (<<"a">> :> ViewA) @@ (ViewA :> ViewB) }

\* no plan is analysed
NoQep ==
    /\ plan = << >>
    /\ views = << >>
    /\ blocks_accessed = << >>
    /\ gotten = FALSE
    /\ stack = << >>
    /\ calls = 0
    /\ results = << >>
    /\ con_views = << >>
    /\ db = [views |-> << >>, aborted |-> FALSE]
    /\ log = << >>

InitRewrite ==
    /\ NoQep
    /\ mg = NoMerge
    /\ \E s \in Statements, v \in Registries :
           rw = [NoRewrite EXCEPT !.statement = s, !.views = v]

\* replace_aliases_with_views(statement, views)
Replace ==
    /\ rw.once = NotCalled
    /\ rw.altered = NotCalled
    /\ \E order \in Orders(get_aliases_in_condition(rw.statement)) :
           rw' = [rw EXCEPT !.once = replace_aliases_with_views(rw.statement, rw.views, order)]
    /\ UNCHANGED <<qep_vars, mg>>

\* replace_aliases_with_views applied to what it returned, same registry
ReplaceAgain ==
    /\ rw.once.exc = "none"
    /\ rw.twice = NotCalled
    /\ \E order \in Orders(get_aliases_in_condition(rw.once.val)) :
           rw' = [rw EXCEPT !.twice = replace_aliases_with_views(rw.once.val, rw.views, order)]
    /\ UNCHANGED <<qep_vars, mg>>

\* condition_is_join(statement) and alter_join_condition(statement)
AlterJoin ==
    /\ rw.once = NotCalled
    /\ rw.altered = NotCalled
    /\ rw' = [rw EXCEPT !.is_join = Returned(condition_is_join(rw.statement)),
                        !.altered = alter_join_condition(rw.statement)]
    /\ UNCHANGED <<qep_vars, mg>>

\* the join case's rewriting of a join condition that is not "": the aliases
\* re.findall gives, replaced by the node_id of the inner and the outer
\* child; nested says that the node is a Nested Loop
SubstituteJoin ==
    /\ rw.once = NotCalled
    /\ rw.altered = NotCalled
    /\ rw.joined = NotCalled
    /\ rw.views = << >>
    /\ rw.statement # << >>
    /\ \E nested \in BOOLEAN :
           rw' = [rw EXCEPT !.nested = nested,
                            !.joined = Returned(SubstituteJoinAliases(
                                           rw.statement, FindJoinAliases(rw.statement, 1),
                                           1, nested, ViewB, ViewA))]
    /\ UNCHANGED <<qep_vars, mg>>

NextRewrite ==
    \/ Replace
    \/ ReplaceAgain
    \/ AlterJoin
    \/ SubstituteJoin

SpecRewrite == InitRewrite /\ [][NextRewrite]_vars

(***************************************************************************)
(* _merge_blocks_accessed on its own, on two drawn block maps.             *)
(***************************************************************************)
BlockSets == {{}, {1, 2, 3}, {3, 4}, {4}}

\* the maps from some of the relations to block sets
BlockMaps == UNION {[rels -> BlockSets] : rels \in SUBSET {RelR, RelS}}

InitMerge ==
    /\ NoQep
    /\ rw = NoRewrite
    /\ \E m \in BlockMaps, partial \in BlockMaps :
           mg = [NoMerge EXCEPT !.blocks = m, !.partial = partial]

\* self._merge_blocks_accessed(partial) on a plan whose map is blocks
Merge ==
    /\ mg.merged = NotCalled
    /\ mg' = [mg EXCEPT !.merged = Returned(_merge_blocks_accessed(mg.blocks, mg.partial))]
    /\ UNCHANGED <<qep_vars, rw>>

NextMerge == Merge

SpecMerge == InitMerge /\ [][NextMerge]_vars

(***************************************************************************)
(* Properties of the traversal (checked under Spec).                       *)
(***************************************************************************)
\* the requests to the engine among the entries of a log
Requests(l) == SelectSeq(l, LAMBDA e : e.op \in {"block_ids", "create_view", "col_names"})

\* the call of get_blocks_accessed the i-th entry of the log belongs to
CallOf(i) == Cardinality({j \in 1..i : log[j].op = "call"})

\* the distinct blocks of a base relation
AllBlocks(relation) ==
    {BaseTables[relation].rows[i].blk : i \in 1..Len(BaseTables[relation].rows)}

\* the blocks of a base relation that hold a row with the value in the column
BlocksWhere(relation, col, value) ==
    {BaseTables[relation].rows[i].blk :
        i \in {j \in 1..Len(BaseTables[relation].rows) :
                  BaseTables[relation].rows[j].vals[col] = value}}

\* the first call of get_blocks_accessed has returned or raised
FirstCallOver == calls >= 1 /\ results[1].exc # "running"

C2_IndexScanReadsMatchingBlocks ==
    ( /\ Len(plan) = 1 /\ plan[1].node_type = "Index Scan" /\ FirstCallOver
      /\ Get(plan[1], INDEX_COND) = Get(plan[1], ALIAS) \o <<".">> \o ColId \o EqSign \o <<"5">> )
    =>  /\ results[1] = Returned((Get(plan[1], "Relation Name")
                                    :> BlocksWhere(Get(plan[1], "Relation Name"), ColId, <<"5">>)))
        /\ BlocksWhere(Get(plan[1], "Relation Name"), ColId, <<"5">>)
               \subseteq AllBlocks(Get(plan[1], "Relation Name"))

\* C3: processing an Index Only Scan node sends no block query to the engine
\* and leaves the block map as it is (no key, no block added), whatever the
\* node's index condition or filter is.
C3_IndexOnlyScanReadsNoBlock ==
    [][ (stack # << >> /\ Top.next > Len(TopNode.children)
         /\ TopNode.node_type = "Index Only Scan")
        => /\ blocks_accessed' = blocks_accessed
           /\ \A i \in (Len(log) + 1)..Len(log') : log'[i].op # "block_ids" ]_vars

\* an Index Only Scan has been processed and its view created
C3_Witness ==
    \E i \in 1..Len(log) :
        /\ log[i].op = "create_view" /\ log[i].err = "none"
        /\ plan[log[i].node].node_type = "Index Only Scan"

\* C4: once get_blocks_accessed has returned, every later call on the same
\* plan returns the same map and sends no request to the engine.
C4_LaterCallsAreCached ==
    [][ (calls >= 1 /\ results[1].exc = "none")
        => /\ Requests(log') = Requests(log)
           /\ \A c \in 2..Len(results') : results'[c] = results[1] ]_vars

\* a join node that lacks a child tagged Inner or a child tagged Outer
MissingSide(n) ==
    /\ plan[n].node_type \in JoinTypes
    /\ \E side \in {<<"Inner">>, <<"Outer">>} :
           \A i \in 1..Len(plan[n].children) :
               Get(plan[plan[n].children[i]], PARENT_RELATIONSHIP) # side

\* C6: when a Nested Loop, Hash Join or Merge Join node without an Outer
\* child (or without an Inner child) is processed, the traversal fails with
\* a ValueError, no view is created for the join and no map is returned.
C6_MissingSideIsValueError ==
    \A i \in 1..Len(log) :
        (log[i].op = "process" /\ MissingSide(log[i].node)) =>
            /\ results[CallOf(i)].exc = "ValueError"
            /\ \A j \in 1..Len(log) :
                   ~(log[j].op = "create_view" /\ log[j].node = log[i].node)

RECURSIVE PostOrder(_, _, _)
\* the nodes of the subtree of n from its i-th child on, the children's
\* subtrees in list order and n last
PostOrder(p, n, i) ==
    IF i > Len(p[n].children) THEN <<n>>
    ELSE PostOrder(p, p[n].children[i], 1) \o PostOrder(p, n, i + 1)

\* the position of node n in the post-order of the plan
PostOrderIndex(n) == CHOOSE k \in 1..Len(plan) : PostOrder(plan, 1, 1)[k] = n

\* C9: in every call of get_blocks_accessed each node is processed at most
\* once and in post-order (after all its descendants, children in list
\* order), every request to the engine belongs to the node processed last,
\* and a call that raises nothing has processed every node exactly once.
C9_PostOrder ==
    /\ \A i, j \in 1..Len(log) :
           (i < j /\ log[i].op = "process" /\ log[j].op = "process" /\ CallOf(i) = CallOf(j))
               => PostOrderIndex(log[i].node) < PostOrderIndex(log[j].node)
    /\ \A i \in 1..Len(log) :
           log[i].op \in {"block_ids", "create_view", "col_names"} =>
               \E k \in 1..(i - 1) :
                   /\ log[k].op = "process" /\ log[k].node = log[i].node
                   /\ \A m \in (k + 1)..i : log[m].op \notin {"process", "call"}
    /\ \A c \in 1..Len(results) :
           results[c].exc = "none" =>
               \A n \in 1..Len(plan) :
                   \E i \in 1..Len(log) :
                       log[i].op = "process" /\ log[i].node = n /\ CallOf(i) = c

\* a join over two scans has been analysed with no exception
C9_Witness ==
    /\ Len(plan) = MaxNodes
    /\ Len(plan[1].children) = 2
    /\ calls = 1 /\ results[1].exc = "none"
    /\ \E i \in 1..Len(log) : log[i].op = "create_view" /\ log[i].node = 1 /\ log[i].err = "none"

(***************************************************************************)
(* Properties of _merge_blocks_accessed (checked under SpecMerge).         *)
(***************************************************************************)
\* the set a map stores for a relation (empty when it has none)
Stored(m, r) == IF r \in DOMAIN m THEN m[r] ELSE {}

\* C5: _merge_blocks_accessed is set union per relation: every relation of
\* the partial map ends with the union of its stored set and its partial
\* set, every other relation keeps its set, and no other key appears;
\* {1,2,3} merged with {3,4} gives {1,2,3,4}.
C5_MergeIsUnion ==
    mg.merged.exc = "none" =>
        /\ DOMAIN mg.merged.val = DOMAIN mg.blocks \cup DOMAIN mg.partial
        /\ \A r \in DOMAIN mg.partial :
               mg.merged.val[r] = Stored(mg.blocks, r) \cup mg.partial[r]
        /\ \A r \in DOMAIN mg.blocks \ DOMAIN mg.partial : mg.merged.val[r] = mg.blocks[r]
        /\ (Stored(mg.blocks, RelR) = {1, 2, 3} /\ Stored(mg.partial, RelR) = {3, 4})
               => mg.merged.val[RelR] = {1, 2, 3, 4}

\* {1,2,3} has been merged with {3,4} for the same relation
C5_Witness ==
    /\ mg.merged.exc = "none"
    /\ Stored(mg.blocks, RelR) = {1, 2, 3} /\ Stored(mg.partial, RelR) = {3, 4}
    /\ RelS \in DOMAIN mg.blocks \ DOMAIN mg.partial

(***************************************************************************)
(* Properties of the condition rewriters (checked under SpecRewrite).      *)
(***************************************************************************)
\* C7: replace_aliases_with_views is idempotent for a fixed registry: when
\* it succeeds on a predicate, it succeeds on its own result and returns
\* the same string.
C7_ReplaceIsIdempotent ==
    (rw.once.exc = "none" /\ rw.twice.exc # "not called") => rw.twice = rw.once

\* an operand L: a name, or a name qualified by a name
IsLeftOperand(s) ==
    \/ IsWord(s)
    \/ \E d \in 1..Len(s) :
           s[d] = "." /\ IsWord(Slice(s, 1, d - 1)) /\ IsWord(Slice(s, d + 1, Len(s)))

\* C8: alter_join_condition("a.id = b.x") returns "( a.id IN (SELECT x FROM b) )",
\* and for every predicate L = R.c that condition_is_join recognises it
\* returns "( L IN (SELECT c FROM R) )".
C8_AlterJoinCondition ==
    (rw.altered.exc # "not called" /\ rw.is_join = Returned(TRUE)) =>
        \A e, d \in 1..Len(rw.statement) :
            ( /\ OccursAt(EqSign, rw.statement, e)
              /\ d > e + 3
              /\ rw.statement[d] = "."
              /\ IsLeftOperand(Slice(rw.statement, 1, e - 1))
              /\ IsWord(Slice(rw.statement, e + 3, d - 1))
              /\ IsWord(Slice(rw.statement, d + 1, Len(rw.statement))) )
            => rw.altered =
                   Returned(<<"(", " ">> \o Slice(rw.statement, 1, e - 1)
                            \o <<" ", "I", "N", " ", "(", "S", "E", "L", "E", "C", "T", " ">>
                            \o Slice(rw.statement, d + 1, Len(rw.statement))
                            \o <<" ", "F", "R", "O", "M", " ">>
                            \o Slice(rw.statement, e + 3, d - 1)
                            \o <<")", " ", ")">>)

RECURSIVE Substituted(_, _, _)
\* s from position k on, the alias of every `alias.column` occurrence
\* replaced by its view
Substituted(s, v, k) ==
    IF k > Len(s) THEN << >>
    ELSE IF AliasMatchAt(s, k).ok
    THEN v[AliasMatchAt(s, k).alias]
         \o Slice(s, k + Len(AliasMatchAt(s, k).alias), AliasMatchAt(s, k).end)
         \o Substituted(s, v, AliasMatchAt(s, k).end + 1)
    ELSE <<s[k]>> \o Substituted(s, v, k + 1)

\* C10: on a comparison of two operands, replace_aliases_with_views raises
\* ViewNotFoundException when the predicate mentions an alias that is not a
\* key of the registry; when every mentioned alias is registered it raises
\* nothing and every `alias.` is replaced by `viewId.`.
C10_ReplaceOrRaise ==
    (rw.once.exc # "not called" /\ rw.statement \in Comparisons) =>
        IF get_aliases_in_condition(rw.statement) \subseteq DOMAIN rw.views
        THEN rw.once = Returned(Substituted(rw.statement, rw.views, 1))
        ELSE rw.once = Raised("ViewNotFoundException")

(***************************************************************************)
(* Properties of the error handling of the traversal (checked under Spec). *)
(***************************************************************************)
\* the requests the step under way has added to the log
NewRequests == {i \in (Len(log) + 1)..Len(log') : log'[i].op # "process"}

\* the step under way has failed to create a view for an undefined object
ViewUndefined(types) ==
    \E i \in NewRequests :
        /\ log'[i].op = "create_view" /\ log'[i].err \in UndefinedObject
        /\ plan[log'[i].node].node_type \in types

\* C11: when the creation of a node's view fails with UndefinedTable or
\* UndefinedParameter, a Seq Scan / Parallel Seq Scan node swallows the
\* error, its full block set is merged into the map and the traversal goes
\* on (the frame returns, nothing is raised); an Index Scan / Index Only
\* Scan / Bitmap Heap Scan node raises UnsupportedQueryException.
C11_UndefinedObjectAtScans ==
    [][ /\ ViewUndefined(ScanTypes) =>
            /\ results'[calls].exc \in {"running", "none"}
            /\ stack' = SubSeq(stack, 1, Len(stack) - 1)
            /\ blocks_accessed' =
                   _merge_blocks_accessed(blocks_accessed,
                       (Get(TopNode, "Relation Name")
                            :> AllBlocks(Get(TopNode, "Relation Name"))))
        /\ ViewUndefined(IndexTypes) =>
            /\ results'[calls] = Raised("UnsupportedQueryException")
            /\ stack' = << >> ]_vars

\* in one call a Seq Scan has swallowed an undefined table and a later index
\* scan has failed on an undefined parameter
C11_Witness ==
    /\ calls = 1 /\ results[1] = Raised("UnsupportedQueryException")
    /\ \E i, j \in 1..Len(log) :
           /\ i < j
           /\ log[i].op = "create_view" /\ log[i].err = "UndefinedTable"
           /\ plan[log[i].node].node_type \in ScanTypes
           /\ log[j].op = "create_view" /\ log[j].err = "UndefinedParameter"
           /\ plan[log[j].node].node_type \in IndexTypes

\* C12: a view-creation failure that a Seq Scan or a pass-through node
\* tolerates is contained at that node: the traversal goes on, and the views
\* created by earlier nodes are still in the engine, as they were.
C12_ToleratedFailureIsContained ==
    [][ ViewUndefined(ScanTypes \cup PassThroughTypes \cup {"Limit"}) =>
            /\ results'[calls].exc \in {"running", "none"}
            /\ stack' = SubSeq(stack, 1, Len(stack) - 1)
            /\ \A v \in DOMAIN db.views :
                   v \in DOMAIN db'.views /\ db'.views[v] = db.views[v] ]_vars

(***************************************************************************)
(* Properties of the views the traversal creates (checked under Spec).     *)
(***************************************************************************)
\* the node_id of the only child of node n
ChildId(n) == plan[plan[n].children[1]].node_id

\* C15: the statement of the view of a Sort node is a SELECT * over its
\* child's view with the node's Sort Key as ORDER BY; the statement of the
\* view of a Limit node is a SELECT * over its child's view with LIMIT equal
\* to the node's Plan Rows.
C15_SortAndLimitViews ==
    \A i \in 1..Len(log) :
        log[i].op = "create_view" =>
            /\ plan[log[i].node].node_type = "Sort" =>
                   log[i].arg = build_select(ChildId(log[i].node), << >>,
                                             Get(plan[log[i].node], SORT_KEY), None)
            /\ plan[log[i].node].node_type = "Limit" =>
                   log[i].arg = build_select(ChildId(log[i].node), << >>, << >>,
                                             Get(plan[log[i].node], "Plan Rows"))

\* the step under way has created a view for the node on top of the stack
ViewMade ==
    \E i \in NewRequests :
        log'[i].op = "create_view" /\ log'[i].err = "none" /\ log'[i].node = Top.node

\* the alias of the only child of the node on top of the stack
ChildAlias == Get(plan[TopNode.children[1]], ALIAS)

\* C16: when a pass-through node (Hash, Materialize, Sort, Gather, Gather
\* Merge, Memoize, Limit) whose child has alias a creates its view, the
\* node's Alias becomes a, the registry resolves a to the node's identifier
\* and nothing else of the plan or the registry changes; when the creation
\* fails with an undefined-object error, the plan and the registry stay as
\* they are and the traversal goes on.
C16_PassThroughInheritsAlias ==
    [][ (Ready(PassThroughTypes \cup {"Limit"}) /\ ChildAlias # None) =>
            /\ ViewMade =>
                   /\ plan' = [plan EXCEPT ![Top.node].attributes =
                                   (ALIAS :> ChildAlias) @@ @]
                   /\ Get(plan'[Top.node], ALIAS) = ChildAlias
                   /\ views' = (ChildAlias :> TopNode.node_id) @@ views
                   /\ views'[ChildAlias] = TopNode.node_id
            /\ ViewUndefined(PassThroughTypes \cup {"Limit"}) =>
                   /\ plan' = plan
                   /\ views' = views
                   /\ results'[calls].exc \in {"running", "none"}
                   /\ stack' = SubSeq(stack, 1, Len(stack) - 1) ]_vars

\* a pass-through node over a pass-through node over a scan: both have taken
\* the scan's alias, and the registry resolves it to the upper one
C16_Witness ==
    /\ Len(plan) = 3
    /\ plan[1].node_type \in PassThroughTypes \cup {"Limit"}
    /\ plan[2].node_type \in PassThroughTypes \cup {"Limit"}
    /\ Get(plan[3], ALIAS) # None
    /\ Get(plan[1], ALIAS) = Get(plan[3], ALIAS)
    /\ Get(plan[2], ALIAS) = Get(plan[3], ALIAS)
    /\ Get(plan[3], ALIAS) \in DOMAIN views
    /\ views[Get(plan[3], ALIAS)] = plan[1].node_id

\* the node types no case of the match names
OtherTypes ==
    DOMAIN NodeTypeChars \ (ScanTypes \cup IndexTypes \cup JoinTypes
                             \cup PassThroughTypes \cup {"Limit"})

\* C17: processing an Aggregate node (a node of a kind no case names) sends
\* no request to the engine, creates no view, registers no alias, changes no
\* node and adds nothing to the block map, and returns to its caller; all
\* its children have been processed before, in the same call.
C17_OtherNodesDoNothing ==
    [][ Ready(OtherTypes) =>
            /\ log' = Append(log, Request("process", Top.node, TopNode.node_id, None, "none"))
            /\ UNCHANGED <<db, con_views, views, plan, blocks_accessed>>
            /\ stack' = SubSeq(stack, 1, Len(stack) - 1)
            /\ results'[calls].exc \in {"running", "none"}
            /\ \A c \in 1..Len(TopNode.children) :
                   \E i \in 1..Len(log) :
                       /\ log[i].op = "process" /\ log[i].node = TopNode.children[c]
                       /\ CallOf(i) = calls ]_vars

\* an Aggregate over a scan has been analysed: the map holds the scan's blocks
\* and the only view is the scan's
C17_Witness ==
    /\ Len(plan) = 2 /\ plan[1].node_type = "Aggregate"
    /\ calls = 1 /\ results[1].exc = "none"
    /\ DOMAIN results[1].val # {}
    /\ Len(con_views) = 1

\* the Relation Name attributes of the nodes of the plan
RelationNames == {Get(plan[n], "Relation Name") : n \in 1..Len(plan)} \ {None}

\* C18: a join node adds no block of its own: processing a Nested Loop, Hash
\* Join or Merge Join node leaves the block map as its descendants made it;
\* and every key of the map, at any time, is the Relation Name of a node,
\* never an alias or a view identifier.
C18_JoinsAddNoBlocks ==
    [][ /\ Ready(JoinTypes) => blocks_accessed' = blocks_accessed
        /\ DOMAIN blocks_accessed' \subseteq RelationNames ]_vars

\* a join over scans of two relations has created its view: the map has the
\* two relations as its keys
C18_Witness ==
    /\ Len(plan) = 3 /\ plan[1].node_type \in JoinTypes
    /\ calls = 1 /\ results[1].exc = "none"
    /\ DOMAIN blocks_accessed = {RelR, RelS}
    /\ \E i \in 1..Len(log) :
           log[i].op = "create_view" /\ log[i].node = 1 /\ log[i].err = "none"

(***************************************************************************)
(* The caller, QueryInputForm.execute_query (checked under Spec).          *)
(***************************************************************************)
\* what execute_query shows after the call of get_blocks_accessed that gave
\* `result`: self.blocks_accessed is set to dict() before the try and is
\* assigned only when the call returns; when UnsupportedQueryException is
\* caught the note "this query is unsupported" is shown; any other
\* exception leaves the handler
execute_query(result) ==
    IF result.exc = "none"
    THEN [blocks_accessed |-> result.val, unsupported |-> FALSE, exc |-> "none"]
    ELSE IF result.exc = "UnsupportedQueryException"
    THEN [blocks_accessed |-> << >>, unsupported |-> TRUE, exc |-> "none"]
    ELSE [blocks_accessed |-> << >>, unsupported |-> FALSE, exc |-> result.exc]

\* C13: when get_blocks_accessed raises UnsupportedQueryException,
\* execute_query shows the block sets the nodes processed before the failure
\* merged into the plan's map, flagged as possibly inaccurate.
C13_PartialResultIsShown ==
    (calls = 1 /\ results[1] = Raised("UnsupportedQueryException")) =>
        /\ execute_query(results[1]).unsupported
        /\ execute_query(results[1]).blocks_accessed = blocks_accessed

JoinOperandAliases == {<<"a">>, <<"b">>, <<"b", "a">>, <<"p", "s">>, <<"s">>}
JoinOperandCols == {<<"x">>, <<"y">>, <<"i", "d">>, <<"x", "0">>, <<"i", "d", "0">>}

\* the qualified column alias.col
AliasCol(alias, col) == alias \o <<".">> \o col

\* C19: the join condition compares a column of the outer side with a
\* column of the inner side (Hash Cond, Merge Cond), or a column of the inner
\* side with one of the outer side (the Index Cond of a Nested Loop's inner
\* child); in the emitted predicate the alias of the inner side is replaced
\* by the inner child's view identifier and the alias of the outer side by
\* the outer child's view identifier.
C19_JoinAliasesBecomeChildViews ==
    \A la \in JoinOperandAliases, ra \in JoinOperandAliases :
        \A lc \in JoinOperandCols, rc \in JoinOperandCols :
            (/\ la # ra
             /\ rw.joined # NotCalled
             /\ rw.statement = AliasCol(la, lc) \o EqSign \o AliasCol(ra, rc)) =>
                rw.joined.val =
                    IF rw.nested
                    THEN AliasCol(ViewB, lc) \o EqSign \o AliasCol(ViewA, rc)
                    ELSE AliasCol(ViewA, lc) \o EqSign \o AliasCol(ViewB, rc)

(***************************************************************************)
(* The projection list of a join view (checked under Spec).                *)
(***************************************************************************)
\* the list the two children's columns call for: the columns of exactly one
\* child, and the columns of both qualified by the inner child's view
ProjectionOf(inner_id, inner_cols, outer_cols) ==
    ((inner_cols \ outer_cols) \cup (outer_cols \ inner_cols))
    \cup {inner_id \o <<".">> \o col : col \in inner_cols \cap outer_cols}

\* C20: the projection list of the statement a join node sends to
\* create_view holds every column that occurs in exactly one of the two
\* child views and, for every column name of both child views, that column
\* qualified by the inner child's view identifier; so every column name of
\* either child appears in it.
C20_JoinProjectionKeepsSharedColumns ==
    [][ \A i \in NewRequests :
            (/\ log'[i].op = "create_view"
             /\ plan[log'[i].node].node_type \in JoinTypes) =>
                log'[i].arg.select_cols =
                    ProjectionOf(log'[i].arg.relation_inner,
                                 Lookup(db, lower(log'[i].arg.relation_inner)).cols,
                                 Lookup(db, lower(log'[i].arg.relation_outer)).cols)
      ]_vars

(***************************************************************************)
(* The Filter of an index-family node (checked under Spec).                *)
(***************************************************************************)
\* the aliases of the Filter of the node whose case runs
FilterAliases == get_aliases_in_condition(Get(TopNode, "Filter"))

\* the case of an index-family node runs; its condition can be rewritten
\* and its Filter names an alias
FilterWithAlias ==
    /\ Ready(IndexTypes)
    /\ CondAttribute(TopNode) # None
    /\ get_aliases_in_condition(CondAttribute(TopNode)) \subseteq DOMAIN views
    /\ Get(TopNode, "Filter") # None
    /\ FilterAliases # {}

\* the Filter with its aliases replaced by their views
FilterSubstituted ==
    {replace_aliases_with_views(Get(TopNode, "Filter"), views, order).val :
         order \in Orders(FilterAliases)}

\* C21: the Filter that goes into the view of an Index Scan, Index Only
\* Scan or Bitmap Heap Scan node is alias-substituted like the index
\* condition: when every alias of the Filter is registered the emitted SELECT
\* holds the Filter with each alias replaced by its view identifier, and
\* when one is not registered the analysis raises UnsupportedQueryException.
C21_FilterIsAliasSubstituted ==
    [][ FilterWithAlias =>
            IF FilterAliases \subseteq DOMAIN views
            THEN \A i \in NewRequests :
                     log'[i].op = "create_view" =>
                         log'[i].arg.conditions[Len(log'[i].arg.conditions)]
                             \in FilterSubstituted
            ELSE results'[calls] = Raised("UnsupportedQueryException")
      ]_vars

(***************************************************************************)
(* The node identifiers of a plan (checked under Spec).                    *)
(***************************************************************************)
\* C22: any two distinct nodes of a plan tree, also two nodes of the same
\* node type, have different node_id values, so no two nodes share a view
\* name.
C22_NodeIdsAreUnique ==
    \A i, j \in 1..Len(plan) : i # j => plan[i].node_id # plan[j].node_id

(***************************************************************************)
(* The alias -> view registry (checked under Spec).                        *)
(***************************************************************************)
\* C23: the registry of a QueryExecutionPlan is empty before the first
\* traversal and its key set never shrinks: an alias once registered stays a
\* key in every later state (its value may be replaced by the identifier of
\* an ancestor pass-through node).
C23_RegistryNeverShrinks ==
    /\ [](calls = 0 => views = << >>)
    /\ [][DOMAIN views \subseteq DOMAIN views']_vars

\* a registered alias has been taken over by a pass-through node, and the
\* traversal has ended by an exception
C23_Witness ==
    /\ \E a \in DOMAIN views : \E n \in 1..Len(plan) :
           plan[n].node_type \in PassThroughTypes /\ views[a] = plan[n].node_id
    /\ calls >= 1 /\ results[calls].exc \notin {"none", "running"}

(***************************************************************************)
(* The connection's list of views (checked under Spec).                    *)
(***************************************************************************)
\* the CREATE VIEW requests of the step under way that the engine accepted
ViewsCreated ==
    SelectSeq(SubSeq(log', Len(log) + 1, Len(log')),
              LAMBDA q : q.op = "create_view" /\ q.err = "none")

\* C24: create_view appends the view name to the connection's list when
\* CREATE VIEW succeeded and never when it failed, so every step extends the
\* list by exactly the names of the views it created; and in every state
\* every value of the alias -> view registry is a name of that list.
C24_RecordedViewsAreTheCreatedOnes ==
    /\ [](\A a \in DOMAIN views : \E i \in 1..Len(con_views) : con_views[i] = views[a])
    /\ [][con_views' = con_views \o [i \in 1..Len(ViewsCreated) |-> ViewsCreated[i].name]
        ]_vars

\* a CREATE VIEW has failed after another one succeeded, and an alias is
\* registered
C24_Witness ==
    /\ views # << >>
    /\ con_views # << >>
    /\ \E i, j \in 1..Len(log) :
           /\ i < j
           /\ log[i].op = "create_view" /\ log[i].err = "none"
           /\ log[j].op = "create_view" /\ log[j].err # "none"

(***************************************************************************)
(* condition_is_join (checked under SpecRewrite).                          *)
(***************************************************************************)
\* s[i..j] is a qualified column: ident.ident
IsQualifiedColumn(s, i, j) ==
    \E d \in (i + 1)..(j - 1) :
        s[d] = "." /\ IsWord(Slice(s, i, d - 1)) /\ IsWord(Slice(s, d + 1, j))

\* s contains an equality between two qualified columns
HasQualifiedEquality(s) ==
    \E e \in 1..Len(s) :
        /\ OccursAt(EqSign, s, e)
        /\ \E i \in 1..(e - 1) : IsQualifiedColumn(s, i, e - 1)
        /\ \E j \in (e + 3)..Len(s) : IsQualifiedColumn(s, e + 3, j)

\* C25: condition_is_join returns true exactly for the predicates that
\* contain an equality between two qualified columns, ident.ident =
\* ident.ident; so it returns false for a predicate whose left operand is an
\* unqualified column, col = b.x.
C25_JoinIsQualifiedEquality ==
    rw.is_join.exc = "none" => (rw.is_join.val <=> HasQualifiedEquality(rw.statement))

(***************************************************************************)
(* An index-family node that raises (checked under Spec).                  *)
(***************************************************************************)
\* C26: when an Index Scan, Index Only Scan or Bitmap Heap Scan node raises
\* UnsupportedQueryException the traversal stops there: the map is left as
\* the nodes processed before left it (the failing node's block identifiers
\* are not merged), every frame is gone so that no later node is processed,
\* and the step has sent requests for the failing node only.
C26_UnsupportedStopsTheTraversal ==
    [][ (Ready(IndexTypes) /\ results'[calls] = Raised("UnsupportedQueryException")) =>
            /\ blocks_accessed' = blocks_accessed
            /\ stack' = << >>
            /\ \A i \in (Len(log) + 1)..Len(log') : log'[i].node = Top.node
      ]_vars

\* an Index Scan below the root has raised after its block query was
\* answered; an earlier node's blocks are in the map, its own are not
C26_Witness ==
    /\ calls = 1
    /\ results[1] = Raised("UnsupportedQueryException")
    /\ blocks_accessed # << >>
    /\ \E i \in 1..Len(log) :
           /\ log[i].op = "block_ids" /\ log[i].err = "none"
           /\ log[i].node # 1
           /\ plan[log[i].node].node_type = "Index Scan"
           /\ Get(plan[log[i].node], "Relation Name") \notin DOMAIN blocks_accessed
           /\ log[Len(log)].node = log[i].node

(***************************************************************************)
(* A join over a child that has no view (checked under Spec).              *)
(***************************************************************************)
\* the Inner and the Outer child of the node whose case runs (0: none)
InnerChild == get_child_with_attribute(plan, TopNode, PARENT_RELATIONSHIP, <<"Inner">>)
OuterChild == get_child_with_attribute(plan, TopNode, PARENT_RELATIONSHIP, <<"Outer">>)

\* node n has no view in the engine
NoViewOf(n) == lower(plan[n].node_id) \notin DOMAIN db.views

\* the case of a join runs, and its Inner or its Outer child has no view
JoinOverMissingView ==
    /\ Ready(JoinTypes)
    /\ InnerChild # 0 /\ OuterChild # 0
    /\ NoViewOf(InnerChild) \/ NoViewOf(OuterChild)

\* C27: when the Inner or the Outer child of a join node has no view, the
\* join's own CREATE VIEW fails and the engine's error leaves
\* get_blocks_accessed as it is: it is neither swallowed nor turned into
\* UnsupportedQueryException, execute_query does not handle it, and every
\* frame is gone, so that no ancestor of the join is processed.
C27_JoinFailureEscapesRaw ==
    [][ JoinOverMissingView =>
            /\ stack' = << >>
            /\ results'[calls].exc # "none"
            /\ \A i \in NewRequests :
                   log'[i].op = "create_view" =>
                       /\ log'[i].err \in UndefinedObject
                       /\ results'[calls] = Raised(log'[i].err)
                       /\ execute_query(results'[calls]).exc = log'[i].err
      ]_vars

\* a join whose child's view creation was tolerated as failed has sent its
\* CREATE VIEW, and the call has raised UndefinedTable
C27_Witness ==
    /\ calls = 1
    /\ results[1] = Raised("UndefinedTable")
    /\ \E i, j \in 1..Len(log) :
           /\ i < j
           /\ log[i].op = "create_view" /\ log[i].err \in UndefinedObject
           /\ plan[log[i].node].node_type \in ScanTypes
           /\ log[j].op = "create_view" /\ log[j].err = "UndefinedTable"
           /\ plan[log[j].node].node_type \in JoinTypes
           /\ log[i].node \in {plan[log[j].node].children[k] : k \in 1..2}

(***************************************************************************)
(* The keys of the registry (checked under Spec).                          *)
(***************************************************************************)
\* C28: in every state every key of the alias -> view registry is an alias
\* string, never None: a pass-through node whose child carries no alias (a
\* join node) registers nothing.
C28_RegistryKeysAreAliases ==
    None \notin DOMAIN views

(***************************************************************************)
(* alter_join_condition inside the traversal (checked under Spec).         *)
(***************************************************************************)
\* C29: no call of get_blocks_accessed ends by the ValueError of
\* alter_join_condition: the index-family case calls it only on a condition
\* for which condition_is_join has just returned true, and both search the
\* same pattern.
C29_AlterNeverRaisesInTraversal ==
    \A i \in 1..Len(results) : results[i].exc # "ValueError"

\* an index-family node has sent a CREATE VIEW whose condition was rewritten
\* by alter_join_condition
C29_Witness ==
    \E i \in 1..Len(log) :
        /\ log[i].op = "create_view"
        /\ plan[log[i].node].node_type \in IndexTypes
        /\ log[i].arg.conditions # << >>
        /\ condition_is_join(CondAttribute(plan[log[i].node]))
        /\ \E k \in 1..Len(log[i].arg.conditions[1]) :
               OccursAt(<<" ", "I", "N", " ", "(", "S", "E", "L", "E", "C", "T", " ">>,
                        log[i].arg.conditions[1], k)

(***************************************************************************)
(* create_view on a failure of the engine (checked under Spec).            *)
(***************************************************************************)
\* the CREATE VIEW requests of the step under way
ViewRequests == {i \in NewRequests : log'[i].op = "create_view"}

\* C30: when the engine fails a CREATE VIEW, create_view rolls the
\* transaction back and raises the engine's error again: the request is
\* followed by the rollback and by no second CREATE VIEW, the list of
\* recorded views is as before, the transaction is not left aborted, and
\* the error, unless the node's case handles it (an undefined object), is
\* what get_blocks_accessed raises.
C30_FailedCreateViewRollsBack ==
    [][ \A i \in ViewRequests :
            log'[i].err # "none" =>
                /\ i + 1 = Len(log')
                /\ log'[i + 1].op = "rollback"
                /\ ViewRequests = {i}
                /\ con_views' = con_views
                /\ ~db'.aborted
                /\ log'[i].err \notin UndefinedObject => results'[calls] = Raised(log'[i].err)
      ]_vars

\* a CREATE VIEW has failed with an error no case handles, after another
\* view was recorded
C30_Witness ==
    /\ con_views # << >>
    /\ ~db.aborted
    /\ Len(log) >= 2
    /\ log[Len(log) - 1].op = "create_view"
    /\ log[Len(log) - 1].err \notin UndefinedObject \cup {"none"}
    /\ log[Len(log)].op = "rollback"
    /\ results[calls] = Raised(log[Len(log) - 1].err)

====
